---- MODULE Spec2Model ----
(***************************************************************************)
(* Verification model of the live paper-trading path of CRYPTO_ROBOT:      *)
(*   src/live_trader.py                     PriceManager, PortfolioSimulator,*)
(*                                          handle_update, check_for_arbitrage*)
(*   src/strategies/arbitrage_strategy.py   calculate_execution_details,    *)
(*                                          find_depth_aware_opportunity    *)
(*   src/strategies/triangular_arbitrage_strategy.py   get_amount_out       *)
(*                                                                         *)
(* Python floats are modelled as exact rationals <<n, d>> in lowest terms  *)
(* with d > 0, so every comparison the code makes is decided exactly.      *)
(* Python strings the code splits or rewrites are sequences of characters. *)
(***************************************************************************)
EXTENDS Integers, Sequences, FiniteSets, TLC

VARIABLES
    balances,       \* PortfolioSimulator.balances: exchange -> asset -> amount
    ledger_call,    \* history: the last PortfolioSimulator call, its argument, the balances before it, its result
    prices,         \* PriceManager.prices: pair -> exchange -> order book or None
    price_history,  \* PriceManager.price_history: pair -> deque of mid prices
    clock,          \* history: local time, in tenths of a second
    recv_time,      \* history: pair -> exchange -> local time the cached book was received
    last_check,     \* history: how far the last check_for_arbitrage got, what it found and did
    det_in,         \* inputs of the matching functions under SpecDetect
    det_out,        \* their results
    last_sent,      \* history: pair -> exchange -> the last order book the exchange sent, or None
    conn,           \* exchange -> where its connector's loop stands and what it last did
    task,           \* where each task of main() stands between and inside its calls
    ops             \* number of operations performed so far

vars == <<balances, ledger_call, prices, price_history, clock, recv_time,
          last_check, det_in, det_out, last_sent, conn, task, ops>>

None == "None"

-----------------------------------------------------------------------------
(* Exact rational arithmetic standing for Python float arithmetic.         *)

RECURSIVE GCD(_, _)
GCD(a, b) == IF b = 0 THEN a ELSE GCD(b, a % b)

Abs(x) == IF x < 0 THEN -x ELSE x

\* the rational n/d (d # 0) in lowest terms with a positive denominator
R(n, d) ==
    LET s == IF d < 0 THEN -1 ELSE 1
        g == GCD(Abs(n), Abs(d))
    IN  <<(s * n) \div g, (s * d) \div g>>

Int2R(n) == <<n, 1>>
RZero == <<0, 1>>
ROne == <<1, 1>>

\* The operations divide out common factors before they multiply, so that the
\* intermediate products stay as small as the operands allow.
RMul(x, y) ==
    LET g1 == GCD(Abs(x[1]), y[2])
        g2 == GCD(Abs(y[1]), x[2])
    IN  <<(x[1] \div g1) * (y[1] \div g2), (x[2] \div g2) * (y[2] \div g1)>>
RAdd(x, y) ==
    LET g == GCD(x[2], y[2])
    IN  R(x[1] * (y[2] \div g) + y[1] * (x[2] \div g), (x[2] \div g) * y[2])
RNeg(x) == <<-x[1], x[2]>>
RSub(x, y) == RAdd(x, RNeg(y))
\* x / y; the callers guard y # 0 where the code would raise ZeroDivisionError
RDiv(x, y) == RMul(x, IF y[1] < 0 THEN <<-y[2], -y[1]>> ELSE <<y[2], y[1]>>)
RLt(x, y) ==
    LET g == GCD(x[2], y[2])
    IN  x[1] * (y[2] \div g) < y[1] * (x[2] \div g)
RLe(x, y) ==
    LET g == GCD(x[2], y[2])
    IN  x[1] * (y[2] \div g) <= y[1] * (x[2] \div g)
RGt(x, y) == RLt(y, x)
RGe(x, y) == RLe(y, x)
RMin(x, y) == IF RLe(x, y) THEN x ELSE y
RAbs(x) == <<Abs(x[1]), x[2]>>

-----------------------------------------------------------------------------
(* Natural numbers of any size, as little-endian sequences of digits in    *)
(* base BigBase with no leading zero digit: they decide the one comparison *)
(* of the threshold gate whose exact products do not fit a machine word.   *)

BigBase == 100 * 100

RECURSIVE BigFromNat(_)
BigFromNat(n) == IF n = 0 THEN <<>> ELSE <<n % BigBase>> \o BigFromNat(n \div BigBase)

RECURSIVE BigAdd(_, _, _)
BigAdd(a, b, carry) ==
    IF a = <<>> /\ b = <<>> THEN (IF carry = 0 THEN <<>> ELSE <<carry>>)
    ELSE LET x == IF a = <<>> THEN 0 ELSE Head(a)
             y == IF b = <<>> THEN 0 ELSE Head(b)
             t == x + y + carry
         IN  <<t % BigBase>> \o BigAdd(IF a = <<>> THEN a ELSE Tail(a),
                                       IF b = <<>> THEN b ELSE Tail(b), t \div BigBase)

RECURSIVE BigMulDigit(_, _, _)
BigMulDigit(a, d, carry) ==
    IF a = <<>> THEN (IF carry = 0 THEN <<>> ELSE <<carry>>)
    ELSE LET t == Head(a) * d + carry
         IN  <<t % BigBase>> \o BigMulDigit(Tail(a), d, t \div BigBase)

RECURSIVE BigMul(_, _)
BigMul(a, b) ==
    IF a = <<>> \/ b = <<>> THEN <<>>
    ELSE LET rest == BigMul(a, Tail(b))
         IN  BigAdd(IF Head(b) = 0 THEN <<>> ELSE BigMulDigit(a, Head(b), 0),
                    IF rest = <<>> THEN <<>> ELSE <<0>> \o rest, 0)

RECURSIVE BigLeFrom(_, _, _)
\* a <= b for a, b of equal length, comparing from digit i down
BigLeFrom(a, b, i) ==
    IF i = 0 THEN TRUE
    ELSE IF a[i] # b[i] THEN a[i] < b[i]
    ELSE BigLeFrom(a, b, i - 1)

BigLe(a, b) ==
    IF Len(a) # Len(b) THEN Len(a) < Len(b) ELSE BigLeFrom(a, b, Len(a))

\* x >= m * sqrt(v) for rationals x, m >= 0 and v >= 0, decided on the squares:
\* x >= 0 and m^2 * v <= x^2
GeTimesSqrt(x, m, v) ==
    /\ x[1] >= 0
    /\ LET sq(n) == BigMul(BigFromNat(n), BigFromNat(n))
       IN  BigLe(BigMul(BigMul(sq(m[1]), BigFromNat(v[1])), sq(x[2])),
                 BigMul(BigMul(sq(x[1]), BigFromNat(v[2])), sq(m[2])))

-----------------------------------------------------------------------------
(* src/config/settings.py                                                  *)

SOL_USDT == <<"S", "O", "L", "/", "U", "S", "D", "T">>
TON_USDT == <<"T", "O", "N", "/", "U", "S", "D", "T">>
\* an instrument that is not configured
BTC_USDT == <<"B", "T", "C", "/", "U", "S", "D", "T">>

\* the configured instruments (the model tracks two of the five configured)
TRADING_PAIRS == <<SOL_USDT, TON_USDT>>

PairSet == {TRADING_PAIRS[i] : i \in 1..Len(TRADING_PAIRS)}

MIN_PROFIT_THRESHOLD == R(5, 10000)
TRADE_SIZE_USDT == Int2R(100)
TRADING_FEES == [okx |-> [taker_fee |-> R(1, 1000)], bybit |-> [taker_fee |-> R(1, 1000)]]
REBALANCE_THRESHOLD_PERCENTAGE == R(20, 100)
\* a step of one and a half times the excess
RebalanceAmountOverfull == R(150, 100)
REBALANCE_AMOUNT_PERCENTAGE == R(50, 100)
DYNAMIC_THRESHOLD_ENABLED == TRUE
VOLATILITY_LOOKBACK_PERIOD == 60
VOLATILITY_MULTIPLIER == Int2R(2)
\* MAX_DATA_STALENESS_SECONDS = 0.5, in tenths of a second
MAX_DATA_STALENESS == 5

-----------------------------------------------------------------------------
(* String helpers: str.split('/'), str.lower()                              *)

RECURSIVE IndexOf(_, _, _)
\* least index >= i of character c in s, or 0
IndexOf(s, c, i) ==
    IF i > Len(s) THEN 0 ELSE IF s[i] = c THEN i ELSE IndexOf(s, c, i + 1)

\* pair.split('/') for a string holding one '/': <<base, quote>>
SplitPair(pair) ==
    LET k == IndexOf(pair, "/", 1)
    IN  <<SubSeq(pair, 1, k - 1), SubSeq(pair, k + 1, Len(pair))>>

BaseOf(pair) == SplitPair(pair)[1]
QuoteOf(pair) == SplitPair(pair)[2]

USDT == <<"U", "S", "D", "T">>

\* opp['buy_exchange'].lower()
Lower(name) ==
    CASE name = "OKX" -> "okx"
      [] name = "Bybit" -> "bybit"
      [] OTHER -> name

-----------------------------------------------------------------------------
(* PortfolioSimulator                                                       *)

\* list(self.balances.keys())
Exchanges == <<"okx", "bybit">>
ExchangeSet == {"okx", "bybit"}

AssetSet == {USDT} \cup {BaseOf(p) : p \in PairSet}

\* PortfolioSimulator.__init__
InitialBalances(initial_usdt) ==
    [ex \in ExchangeSet |-> [a \in AssetSet |-> IF a = USDT THEN initial_usdt ELSE RZero]]

\* the balances after `bal[ex][asset] += delta`
Credit(bal, ex, asset, delta) ==
    [bal EXCEPT ![ex][asset] = RAdd(@, delta)]

\* the four updates of check_and_update_balances, in the order of the code
ApplyTrade(bal, buy_ex, sell_ex, base_asset, quote_asset, opp) ==
    Credit(Credit(Credit(Credit(bal,
        buy_ex, quote_asset, RNeg(opp.quote_asset_cost)),
        buy_ex, base_asset, opp.base_asset_amount),
        sell_ex, base_asset, RNeg(opp.base_asset_amount)),
        sell_ex, quote_asset, opp.quote_asset_revenue)

\* CheckFunds with the buy side debited as soon as its own test passes, before
\* the sell side is tested
CheckFundsDebitFirst(bal, buy_ex, sell_ex, base_asset, quote_asset, opp) ==
    IF RLt(bal[buy_ex][quote_asset], opp.quote_asset_cost) THEN <<FALSE, bal>>
    ELSE IF RLt(bal[sell_ex][base_asset], opp.base_asset_amount)
    THEN <<FALSE, Credit(bal, buy_ex, quote_asset, RNeg(opp.quote_asset_cost))>>
    ELSE <<TRUE, ApplyTrade(bal, buy_ex, sell_ex, base_asset, quote_asset, opp)>>

\* a CheckFunds that tests the quote balance only
CheckFundsQuoteOnly(bal, buy_ex, sell_ex, base_asset, quote_asset, opp) ==
    IF RLt(bal[buy_ex][quote_asset], opp.quote_asset_cost) THEN <<FALSE, bal>>
    ELSE <<TRUE, ApplyTrade(bal, buy_ex, sell_ex, base_asset, quote_asset, opp)>>

\* a CheckFunds whose trade credits the selling exchange with the cost
CheckFundsCreditsCost(bal, buy_ex, sell_ex, base_asset, quote_asset, opp) ==
    IF RLt(bal[buy_ex][quote_asset], opp.quote_asset_cost) THEN <<FALSE, bal>>
    ELSE IF RLt(bal[sell_ex][base_asset], opp.base_asset_amount) THEN <<FALSE, bal>>
    ELSE <<TRUE, ApplyTrade(bal, buy_ex, sell_ex, base_asset, quote_asset,
                            [opp EXCEPT !.quote_asset_revenue = opp.quote_asset_cost])>>

\* check_and_update_balances once the exchange names and the assets are read
CheckFunds(bal, buy_ex, sell_ex, base_asset, quote_asset, opp) ==
    IF RLt(bal[buy_ex][quote_asset], opp.quote_asset_cost) THEN <<FALSE, bal>>
    ELSE IF RLt(bal[sell_ex][base_asset], opp.base_asset_amount) THEN <<FALSE, bal>>
    ELSE <<TRUE, ApplyTrade(bal, buy_ex, sell_ex, base_asset, quote_asset, opp)>>

\* check_and_update_balances: <<return value, balances after the call>>
CheckAndUpdateBalances(bal, opp) ==
    CheckFunds(bal, Lower(opp.buy_exchange), Lower(opp.sell_exchange),
               BaseOf(opp.pair), QuoteOf(opp.pair), opp)

\* next(e for e in exchanges if e != ex)
TargetEx(ex) == IF Exchanges[1] # ex THEN Exchanges[1] ELSE Exchanges[2]

\* MoveIfOver with the two branches of `if deviation > 0` exchanged
MoveIfOverWrongWay(bal, asset, ex, deviation, amount_to_move) ==
    IF RGt(RAbs(deviation), REBALANCE_THRESHOLD_PERCENTAGE)
    THEN IF RGt(deviation, RZero)
         THEN Credit(Credit(bal, ex, asset, amount_to_move),
                     TargetEx(ex), asset, RNeg(amount_to_move))
         ELSE Credit(Credit(bal, ex, asset, RNeg(amount_to_move)),
                     TargetEx(ex), asset, amount_to_move)
    ELSE bal

\* MoveIfOver taking the excess from an exchange without crediting the other
MoveIfOverDropsCredit(bal, asset, ex, deviation, amount_to_move) ==
    IF RGt(RAbs(deviation), REBALANCE_THRESHOLD_PERCENTAGE)
    THEN IF RGt(deviation, RZero)
         THEN Credit(bal, ex, asset, RNeg(amount_to_move))
         ELSE Credit(Credit(bal, ex, asset, amount_to_move),
                     TargetEx(ex), asset, RNeg(amount_to_move))
    ELSE bal

\* the two transfers of check_and_perform_rebalance, once deviation and
\* amount_to_move are computed
MoveIfOver(bal, asset, ex, deviation, amount_to_move) ==
    IF RGt(RAbs(deviation), REBALANCE_THRESHOLD_PERCENTAGE)
    THEN IF RGt(deviation, RZero)
         THEN Credit(Credit(bal, ex, asset, RNeg(amount_to_move)),
                     TargetEx(ex), asset, amount_to_move)
         ELSE Credit(Credit(bal, ex, asset, amount_to_move),
                     TargetEx(ex), asset, RNeg(amount_to_move))
    ELSE bal

\* one iteration of `for ex in exchanges`, once ideal is computed
RebalanceAgainst(bal, asset, ex, ideal) ==
    MoveIfOver(bal, asset, ex,
               RDiv(RSub(bal[ex][asset], ideal), ideal),
               RMul(RAbs(RSub(bal[ex][asset], ideal)), REBALANCE_AMOUNT_PERCENTAGE))

\* one iteration of `for ex in exchanges` of check_and_perform_rebalance
RebalanceStep(bal, asset, total, ex) ==
    RebalanceAgainst(bal, asset, ex, RDiv(total, Int2R(Len(Exchanges))))

\* RebalanceLoop leaving the loop after the first exchange
RebalanceLoopFirstOnly(bal, asset, total, i) ==
    IF i > 1 THEN bal ELSE RebalanceStep(bal, asset, total, Exchanges[1])

RECURSIVE RebalanceLoop(_, _, _, _)
\* `for ex in exchanges:` from position i on
RebalanceLoop(bal, asset, total, i) ==
    IF i > Len(Exchanges) THEN bal
    ELSE RebalanceLoop(RebalanceStep(bal, asset, total, Exchanges[i]), asset, total, i + 1)

\* `if total > 0: for ex in exchanges: ...`
RebalanceTotal(bal, asset, total) ==
    IF RGt(total, RZero) THEN RebalanceLoop(bal, asset, total, 1) ELSE bal

\* the rebalancing of one asset: the sum over the exchanges, then the loop
RebalanceAsset(bal, asset) ==
    RebalanceTotal(bal, asset, RAdd(bal[Exchanges[1]][asset], bal[Exchanges[2]][asset]))

RECURSIVE RebalancePairs(_, _)
\* `for pair in self.pairs:` from position i on
RebalancePairs(bal, i) ==
    IF i > Len(TRADING_PAIRS) THEN bal
    ELSE RebalancePairs(RebalanceAsset(bal, BaseOf(TRADING_PAIRS[i])), i + 1)

\* check_and_perform_rebalance: the balances after the call
CheckAndPerformRebalance(bal) == RebalancePairs(RebalanceAsset(bal, USDT), 1)

-----------------------------------------------------------------------------
(* src/strategies/arbitrage_strategy.py                                    *)
(* An order book is [bids |-> side, asks |-> side]; a side is a sequence   *)
(* of levels <<price, volume>>, both rationals (the value float() gives).  *)

NoFill == [kind |-> "None"]

\* ExecStep taking the whole remaining request from the level, whatever the
\* level offers
ExecStepFillsRequest(acc, price, trade_volume) ==
    [total_cost |-> RAdd(acc.total_cost, RMul(acc.amount_to_fill, price)),
     filled_amount |-> RAdd(acc.filled_amount, acc.amount_to_fill),
     amount_to_fill |-> RZero]

\* the three updates of one loop iteration of calculate_execution_details
ExecStep(acc, price, trade_volume) ==
    [total_cost |-> RAdd(acc.total_cost, RMul(trade_volume, price)),
     filled_amount |-> RAdd(acc.filled_amount, trade_volume),
     amount_to_fill |-> RSub(acc.amount_to_fill, trade_volume)]

RECURSIVE ExecLoop(_, _, _)
\* `for level in order_book_side:` from position i on; acc holds the locals
\* total_cost, amount_to_fill and filled_amount
ExecLoop(side, i, acc) ==
    IF i > Len(side) THEN acc
    ELSE IF RLe(acc.amount_to_fill, RZero) THEN acc
    ELSE ExecLoop(side, i + 1,
             ExecStep(acc, side[i][1], RMin(acc.amount_to_fill, side[i][2])))

\* what calculate_execution_details returns after its loop
ExecResult(acc) ==
    IF acc.filled_amount = RZero THEN NoFill
    ELSE [kind |-> "fill",
          avg_price |-> RDiv(acc.total_cost, acc.filled_amount),
          total_other_asset |-> acc.total_cost,
          amount_filled |-> acc.filled_amount]

\* calculate_execution_details (is_buy_side is not read by the code)
CalculateExecutionDetails(order_book_side, trade_amount) ==
    ExecResult(ExecLoop(order_book_side, 1,
                   [total_cost |-> RZero, amount_to_fill |-> trade_amount,
                    filled_amount |-> RZero]))

\* A direction of find_depth_aware_opportunity ends in one of
\*   "opp"      the direction returns its opportunity
\*   "abort"    `return None` of the 99% test: the whole call returns None
\*   "through"  control falls through to what follows the direction
Through == [outcome |-> "through"]
Abort == [outcome |-> "abort"]

\* ReturnIfProfitable without the test: the direction is returned whatever
\* its profit
ReturnWhateverProfit(buy_details, sell_details, cost, revenue, profit_pct, names) ==
    [outcome |-> "opp",
     opp |-> [kind |-> "opp",
              type |-> names[1],
              buy_exchange |-> names[2], sell_exchange |-> names[3],
              buy_price |-> buy_details.avg_price,
              sell_price |-> sell_details.avg_price,
              profit_percentage |-> profit_pct,
              base_asset_amount |-> sell_details.amount_filled,
              quote_asset_cost |-> cost,
              quote_asset_revenue |-> revenue]]

\* ReturnIfProfitable with `profit_pct >= 0` for its test
ReturnIfNotLosing(buy_details, sell_details, cost, revenue, profit_pct, names) ==
    IF RGe(profit_pct, RZero)
    THEN [outcome |-> "opp",
          opp |-> [kind |-> "opp",
                   type |-> names[1],
                   buy_exchange |-> names[2], sell_exchange |-> names[3],
                   buy_price |-> buy_details.avg_price,
                   sell_price |-> sell_details.avg_price,
                   profit_percentage |-> profit_pct,
                   base_asset_amount |-> sell_details.amount_filled,
                   quote_asset_cost |-> cost,
                   quote_asset_revenue |-> revenue]]
    ELSE Through

\* `if profit_pct > 0: return {...}`
ReturnIfProfitable(buy_details, sell_details, cost, revenue, profit_pct, names) ==
    IF RGt(profit_pct, RZero)
    THEN [outcome |-> "opp",
          opp |-> [kind |-> "opp",
                   type |-> names[1],
                   buy_exchange |-> names[2], sell_exchange |-> names[3],
                   buy_price |-> buy_details.avg_price,
                   sell_price |-> sell_details.avg_price,
                   profit_percentage |-> profit_pct,
                   base_asset_amount |-> sell_details.amount_filled,
                   quote_asset_cost |-> cost,
                   quote_asset_revenue |-> revenue]]
    ELSE Through

\* `profit_pct = (revenue / cost) - 1` and what follows
ProfitOf(buy_details, sell_details, cost, revenue, names) ==
    ReturnIfProfitable(buy_details, sell_details, cost, revenue,
                       RSub(RDiv(revenue, cost), ROne), names)

\* SellLeg with the sell fee added to the revenue, as the buy fee is to the cost
SellLegFeeAdded(buy_details, sell_details, buy_fee, sell_fee, names) ==
    IF sell_details.kind # "fill" THEN Through
    ELSE IF RLt(sell_details.amount_filled, RMul(buy_details.amount_filled, R(99, 100)))
    THEN Abort
    ELSE ProfitOf(buy_details, sell_details,
                  RMul(buy_details.total_other_asset, RAdd(ROne, buy_fee)),
                  RMul(sell_details.total_other_asset, RAdd(ROne, sell_fee)), names)

\* `if sell_details:` and what follows
SellLeg(buy_details, sell_details, buy_fee, sell_fee, names) ==
    IF sell_details.kind # "fill" THEN Through
    ELSE IF RLt(sell_details.amount_filled, RMul(buy_details.amount_filled, R(99, 100)))
    THEN Abort
    ELSE ProfitOf(buy_details, sell_details,
                  RMul(buy_details.total_other_asset, RAdd(ROne, buy_fee)),
                  RMul(sell_details.total_other_asset, RSub(ROne, sell_fee)), names)

\* BuyLeg offloading the quantity asked of the buy leg, not the quantity the
\* buy leg filled
BuyLegSellsRequested(amount_to_buy_base, buy_details, sell_bids, buy_fee, sell_fee, names) ==
    IF ~(buy_details.kind = "fill" /\ RGt(buy_details.amount_filled, RZero))
    THEN Through
    ELSE SellLeg(buy_details,
                 CalculateExecutionDetails(sell_bids, amount_to_buy_base),
                 buy_fee, sell_fee, names)

\* `if buy_details and buy_details['amount_filled'] > 0:` and what follows
BuyLeg(amount_to_buy_base, buy_details, sell_bids, buy_fee, sell_fee, names) ==
    IF ~(buy_details.kind = "fill" /\ RGt(buy_details.amount_filled, RZero))
    THEN Through
    ELSE SellLeg(buy_details,
                 CalculateExecutionDetails(sell_bids, buy_details.amount_filled),
                 buy_fee, sell_fee, names)

\* `buy_details = calculate_execution_details(...)` and what follows
BuyAmount(amount_to_buy_base, buy_asks, sell_bids, buy_fee, sell_fee, names) ==
    BuyLeg(amount_to_buy_base, CalculateExecutionDetails(buy_asks, amount_to_buy_base),
           sell_bids, buy_fee, sell_fee, names)

\* One direction of find_depth_aware_opportunity, from `amount_to_buy_base = ...`
\* to its `return {...}`: buying on buy_asks (not empty), selling on sell_bids
Scenario(buy_asks, sell_bids, trade_size_usdt, buy_fee, sell_fee, names) ==
    BuyAmount(RDiv(trade_size_usdt, buy_asks[1][1]),
              buy_asks, sell_bids, buy_fee, sell_fee, names)

\* Scenario 1: Buy on A, Sell on B
Scenario1(order_book_a, order_book_b, trade_size_usdt, fees) ==
    Scenario(order_book_a.asks, order_book_b.bids, trade_size_usdt,
             fees.okx.taker_fee, fees.bybit.taker_fee, <<"Buy A, Sell B", "A", "B">>)

\* a Scenario 2 that keeps the fees of Scenario 1: the OKX fee on the cost,
\* the Bybit fee on the revenue
Scenario2FeesOfScenario1(order_book_a, order_book_b, trade_size_usdt, fees) ==
    Scenario(order_book_b.asks, order_book_a.bids, trade_size_usdt,
             fees.okx.taker_fee, fees.bybit.taker_fee, <<"Buy B, Sell A", "B", "A">>)

\* Scenario 2: Buy on B, Sell on A
Scenario2(order_book_a, order_book_b, trade_size_usdt, fees) ==
    Scenario(order_book_b.asks, order_book_a.bids, trade_size_usdt,
             fees.bybit.taker_fee, fees.okx.taker_fee, <<"Buy B, Sell A", "B", "A">>)

\* the end of find_depth_aware_opportunity, given how Scenario 2 ended
AfterScenario2(s2) == IF s2.outcome = "opp" THEN s2.opp ELSE NoFill

\* find_depth_aware_opportunity from the end of Scenario 1 on
AfterScenario1(s1, order_book_a, order_book_b, trade_size_usdt, fees) ==
    IF s1.outcome = "abort" THEN NoFill
    ELSE IF s1.outcome = "opp" THEN s1.opp
    ELSE IF order_book_b.asks = <<>> \/ order_book_a.bids = <<>> THEN NoFill
    ELSE AfterScenario2(Scenario2(order_book_a, order_book_b, trade_size_usdt, fees))

\* find_depth_aware_opportunity: [kind |-> "None"] or the opportunity record
FindDepthAwareOpportunity(order_book_a, order_book_b, trade_size_usdt, fees) ==
    IF order_book_a.asks = <<>> \/ order_book_b.bids = <<>> THEN NoFill
    ELSE AfterScenario1(Scenario1(order_book_a, order_book_b, trade_size_usdt, fees),
                        order_book_a, order_book_b, trade_size_usdt, fees)

-----------------------------------------------------------------------------
(* src/strategies/triangular_arbitrage_strategy.py                         *)

\* the updates of one loop iteration of get_amount_out: `received` is added
\* to amount_out and `spent` to spent_so_far; base_used sums the base size
\* taken from the levels (history, not a local of the code)
AmountOutStep(acc, received, spent, base) ==
    [amount_out |-> RAdd(acc.amount_out, received),
     spent_so_far |-> RAdd(acc.spent_so_far, spent),
     base_used |-> RAdd(acc.base_used, base)]

\* the `if is_buy_base:` branch, given quote_to_spend_at_level
BoughtBase(acc, base_received, quote_to_spend_at_level) ==
    AmountOutStep(acc, base_received, quote_to_spend_at_level, base_received)

\* `base_received = quote_to_spend_at_level / price` and the two updates
BuyBaseStep(acc, price, quote_to_spend_at_level) ==
    BoughtBase(acc, RDiv(quote_to_spend_at_level, price), quote_to_spend_at_level)

\* the `else:` branch, given base_to_spend_at_level
SellBaseStep(acc, price, base_to_spend_at_level) ==
    AmountOutStep(acc, RMul(base_to_spend_at_level, price), base_to_spend_at_level,
                  base_to_spend_at_level)

RECURSIVE AmountOutLoop(_, _, _, _, _)
\* `for price_str, volume_str in order_book_side:` from position i on
AmountOutLoop(side, amount_in, is_buy_base, i, acc) ==
    IF i > Len(side) THEN acc
    ELSE IF RGe(acc.spent_so_far, amount_in) THEN acc
    ELSE AmountOutLoop(side, amount_in, is_buy_base, i + 1,
             IF is_buy_base
             THEN BuyBaseStep(acc, side[i][1],
                      RMin(RSub(amount_in, acc.spent_so_far), RMul(side[i][2], side[i][1])))
             ELSE SellBaseStep(acc, side[i][1],
                      RMin(RSub(amount_in, acc.spent_so_far), side[i][2])))

\* the locals of get_amount_out when it returns
AmountOutWalk(order_book_side, amount_in, is_buy_base) ==
    AmountOutLoop(order_book_side, amount_in, is_buy_base, 1,
        [amount_out |-> RZero, spent_so_far |-> RZero, base_used |-> RZero])

\* get_amount_out
GetAmountOut(order_book_side, amount_in, is_buy_base) ==
    AmountOutWalk(order_book_side, amount_in, is_buy_base).amount_out

\* f"{c1}->{c2}->{c3}->{c1}"
Arrow == <<"-", ">">>
PathName(c1, c2, c3) == c1 \o Arrow \o c2 \o Arrow \o c3 \o Arrow \o c1

\* get_amount_out(side, amount_in, is_buy_base) * (1 - fee)
FeeLeg(order_book_side, amount_in, is_buy_base, fee) ==
    RMul(GetAmountOut(order_book_side, amount_in, is_buy_base), RSub(ROne, fee))

\* `if final_amount > 0:` and the dict a path returns; `otherwise` is what
\* the function goes on to when the path yields nothing
TriResult(path, final_amount, start_amount, otherwise) ==
    IF RGt(final_amount, RZero)
    THEN [kind |-> "tri", path |-> path,
          profit_pct |-> RSub(RDiv(final_amount, start_amount), ROne)]
    ELSE otherwise

\* the third leg charged no fee
TriThirdNoFee(amount2, side3, fee, path, start_amount, otherwise) ==
    IF RGt(amount2, RZero)
    THEN TriResult(path, GetAmountOut(side3, amount2, FALSE), start_amount, otherwise)
    ELSE otherwise

\* third leg of a path: the second leg's amount sold into side3
TriThird(amount2, side3, fee, path, start_amount, otherwise) ==
    IF RGt(amount2, RZero)
    THEN TriResult(path, FeeLeg(side3, amount2, FALSE, fee), start_amount, otherwise)
    ELSE otherwise

\* second leg of a path: the first leg's amount traded on side2
TriSecond(amount1, side2, buy2, side3, fee, path, start_amount, otherwise) ==
    IF RGt(amount1, RZero)
    THEN TriThird(FeeLeg(side2, amount1, buy2, fee), side3, fee, path,
                  start_amount, otherwise)
    ELSE otherwise

\* one path: start_amount spent on side1, then side2, then side3
TriPath(side1, side2, buy2, side3, fee, path, start_amount, otherwise) ==
    TriSecond(FeeLeg(side1, start_amount, TRUE, fee), side2, buy2, side3, fee,
              path, start_amount, otherwise)

\* Path 2: C -> B -> A -> C, then `return None`
TriPath2(book_middle_base, book_quote_middle, book_quote_base, base_C, middle_A, quote_B, start_amount, fee) ==
    TriPath(book_quote_base.asks, book_quote_middle.bids, FALSE,
            book_middle_base.bids, fee, PathName(base_C, quote_B, middle_A),
            start_amount, NoFill)

\* a Path 1 whose second leg sells on the asks instead of buying
TriPath1SecondLegSells(book_middle_base, book_quote_middle, book_quote_base, base_C, middle_A, quote_B, start_amount, fee) ==
    TriPath(book_middle_base.asks, book_quote_middle.asks, FALSE,
            book_quote_base.bids, fee, PathName(base_C, middle_A, quote_B),
            start_amount,
            TriPath2(book_middle_base, book_quote_middle, book_quote_base,
                     base_C, middle_A, quote_B, start_amount, fee))

\* Path 1: C -> A -> B -> C, falling through to Path 2
TriPath1(book_middle_base, book_quote_middle, book_quote_base, base_C, middle_A, quote_B, start_amount, fee) ==
    TriPath(book_middle_base.asks, book_quote_middle.asks, TRUE,
            book_quote_base.bids, fee, PathName(base_C, middle_A, quote_B),
            start_amount,
            TriPath2(book_middle_base, book_quote_middle, book_quote_base,
                     base_C, middle_A, quote_B, start_amount, fee))

\* find_triangular_opportunity(books, pairs, start_amount, fee) for a list of
\* three pairs; a pair without a book is the KeyError the function swallows
FindTriangularOpportunity(books, pairs, start_amount, fee) ==
    IF \E i \in 1..3 : pairs[i] \notin DOMAIN books
    THEN NoFill
    ELSE TriPath1(books[pairs[1]], books[pairs[2]], books[pairs[3]],
                  QuoteOf(pairs[1]), BaseOf(pairs[1]), BaseOf(pairs[2]),
                  start_amount, fee)

-----------------------------------------------------------------------------
(* src/live_trader.py: PriceManager                                        *)

NoBook == [kind |-> "None"]

\* PriceManager.__init__
InitialPrices == [pair \in PairSet |-> [ex \in ExchangeSet |-> NoBook]]
InitialHistory == [pair \in PairSet |-> <<>>]

\* a bounded queue that, once full, refuses the new sample
DequeAppendKeepsOldest(dq, x) ==
    IF Len(dq) >= VOLATILITY_LOOKBACK_PERIOD THEN dq ELSE Append(dq, x)

\* deque(maxlen=VOLATILITY_LOOKBACK_PERIOD).append
DequeAppend(dq, x) ==
    LET full == Append(dq, x)
    IN  IF Len(full) > VOLATILITY_LOOKBACK_PERIOD THEN Tail(full) ELSE full

\* `mid_price = (best_bid + best_ask) / 2`
MidPrice(order_book_data) ==
    RDiv(RAdd(order_book_data.bids[1][1], order_book_data.asks[1][1]), Int2R(2))

\* an update_price that stores a book only when it has both sides
UpdatePriceCompleteOnly(pr, hist, exchange, pair, order_book_data) ==
    IF order_book_data.bids # <<>> /\ order_book_data.asks # <<>>
    THEN <<[pr EXCEPT ![pair][exchange] = order_book_data],
           [hist EXCEPT ![pair] = DequeAppend(@, MidPrice(order_book_data))]>>
    ELSE <<pr, hist>>

\* update_price, for a pair in self.prices: <<prices, price_history>> after the call
UpdatePrice(pr, hist, exchange, pair, order_book_data) ==
    <<[pr EXCEPT ![pair][exchange] = order_book_data],
      IF order_book_data.bids # <<>> /\ order_book_data.asks # <<>>
      THEN [hist EXCEPT ![pair] = DequeAppend(@, MidPrice(order_book_data))]
      ELSE hist>>

RECURSIVE RSum(_, _)
\* the sum of xs[i..]
RSum(xs, i) == IF i > Len(xs) THEN RZero ELSE RAdd(xs[i], RSum(xs, i + 1))

\* np.diff(prices_arr) / prices_arr[:-1]
Returns(prices_arr) ==
    [i \in 1..(Len(prices_arr) - 1) |->
        RDiv(RSub(prices_arr[i + 1], prices_arr[i]), prices_arr[i])]

RECURSIVE SumSqDev(_, _, _)
\* the sum of (xs[j] - mean)^2 over j >= i
SumSqDev(xs, mean, i) ==
    IF i > Len(xs) THEN RZero
    ELSE RAdd(RMul(RSub(xs[i], mean), RSub(xs[i], mean)), SumSqDev(xs, mean, i + 1))

\* the population variance of a non-empty sequence: np.std(returns) squared
Variance(returns) ==
    RDiv(SumSqDev(returns, RDiv(RSum(returns, 1), Int2R(Len(returns))), 1),
         Int2R(Len(returns)))

\* the square of calculate_volatility's result: np.std is the square root of
\* the population variance, which is rational where the root is not
VolatilitySquared(dq) ==
    IF Len(dq) < 2 THEN RZero ELSE Variance(Returns(dq))

\* a gate that compares with MIN_PROFIT_THRESHOLD whatever the volatility
ThresholdTestStatic(profit_percentage, v2) ==
    RGe(profit_percentage, MIN_PROFIT_THRESHOLD)

\* `profit_percentage >= current_profit_threshold`, given the volatility squared
ThresholdTest(profit_percentage, v2) ==
    IF DYNAMIC_THRESHOLD_ENABLED /\ RGt(v2, RZero)
    THEN GeTimesSqrt(RSub(profit_percentage, MIN_PROFIT_THRESHOLD),
                     VOLATILITY_MULTIPLIER, v2)
    ELSE RGe(profit_percentage, MIN_PROFIT_THRESHOLD)

\* `opportunity['profit_percentage'] >= current_profit_threshold`, with the
\* threshold of check_for_arbitrage: MIN_PROFIT_THRESHOLD when the volatility
\* is 0, else max(MIN_PROFIT_THRESHOLD, MIN_PROFIT_THRESHOLD + volatility * VOLATILITY_MULTIPLIER)
MeetsThreshold(profit_percentage, dq) ==
    ThresholdTest(profit_percentage, VolatilitySquared(dq))

-----------------------------------------------------------------------------
(* src/live_trader.py: handle_update, check_for_arbitrage                  *)

RECURSIVE Replace(_, _, _)
\* str.replace(c, r) for a character c and a string r
Replace(s, c, r) ==
    IF s = <<>> THEN <<>>
    ELSE (IF Head(s) = c THEN r ELSE <<Head(s)>>) \o Replace(Tail(s), c, r)

RECURSIVE LastIndexOf(_, _, _)
\* greatest index <= i of character c in s, or 0
LastIndexOf(s, c, i) ==
    IF i = 0 THEN 0 ELSE IF s[i] = c THEN i ELSE LastIndexOf(s, c, i - 1)

\* s.split('.')[-1]
LastDotPart(s) == SubSeq(s, LastIndexOf(s, ".", Len(s)) + 1, Len(s))

NoPair == <<>>

RECURSIVE FirstPairMatching(_, _)
\* next((p for p in TRADING_PAIRS if p.replace('/','') == pair_symbol), None)
FirstPairMatching(pair_symbol, i) ==
    IF i > Len(TRADING_PAIRS) THEN NoPair
    ELSE IF Replace(TRADING_PAIRS[i], "/", <<>>) = pair_symbol THEN TRADING_PAIRS[i]
    ELSE FirstPairMatching(pair_symbol, i + 1)

\* a handle_update that takes the first configured pair for a symbol it
\* does not know
PairOfMessageFirstByDefault(exchange, symbol) ==
    IF exchange = "bybit" /\ FirstPairMatching(LastDotPart(symbol), 1) # NoPair
    THEN FirstPairMatching(LastDotPart(symbol), 1)
    ELSE IF exchange # "bybit" /\ Replace(symbol, "-", <<"/">>) \in PairSet
    THEN Replace(symbol, "-", <<"/">>)
    ELSE TRADING_PAIRS[1]

\* the pair handle_update reads out of a message: symbol is message['topic']
\* for Bybit and message['arg']['instId'] for OKX
PairOfMessage(exchange, symbol) ==
    IF exchange = "bybit" THEN FirstPairMatching(LastDotPart(symbol), 1)
    ELSE Replace(symbol, "-", <<"/">>)

\* an empty side makes the `[0][0]` of the pre-check raise IndexError, which
\* check_for_arbitrage catches and returns on
PreCheckRaises(okx_book, bybit_book) ==
    \/ okx_book.asks = <<>> \/ bybit_book.bids = <<>>
    \/ bybit_book.asks = <<>> \/ okx_book.bids = <<>>

\* the top-of-book pre-check of check_for_arbitrage on four non-empty sides:
\* TRUE when the call goes on to the full analysis, FALSE when it returns
PreCheckPasses(okx_book, bybit_book) ==
    LET okx_best_ask == okx_book.asks[1][1]
        bybit_best_bid == bybit_book.bids[1][1]
        bybit_best_ask == bybit_book.asks[1][1]
        okx_best_bid == okx_book.bids[1][1]
    IN  RLt(okx_best_ask, bybit_best_bid) \/ RLt(bybit_best_ask, okx_best_bid)

\* `opportunity['buy_exchange'] = ...; opportunity['sell_exchange'] = ...;
\* opportunity['pair'] = pair`
NameExchanges(opportunity, pair) ==
    [kind |-> "opp",
     type |-> opportunity.type,
     buy_exchange |-> IF opportunity.buy_exchange = "A" THEN "OKX" ELSE "Bybit",
     sell_exchange |-> IF opportunity.sell_exchange = "A" THEN "Bybit" ELSE "OKX",
     pair |-> pair,
     buy_price |-> opportunity.buy_price,
     sell_price |-> opportunity.sell_price,
     profit_percentage |-> opportunity.profit_percentage,
     base_asset_amount |-> opportunity.base_asset_amount,
     quote_asset_cost |-> opportunity.quote_asset_cost,
     quote_asset_revenue |-> opportunity.quote_asset_revenue]

\* the last call made on the ledger: op names it, opp is its argument, before
\* the balances it found, ret what it returned, prev the op of the call before
NoCall == [op |-> "none"]

\* what check_for_arbitrage leaves when it returns without a ledger call
Quiet(stage, opp, bal) ==
    [stage |-> stage, opp |-> opp, balances |-> bal, call |-> NoCall, records |-> <<>>]

\* the line paper_trade_log receives: its level word and what trade_info
\* is formatted from
TradeRecord(word, named) ==
    [word |-> word,
     pair |-> named.pair,
     profit_usd |-> RSub(named.quote_asset_revenue, named.quote_asset_cost),
     profit_percentage |-> named.profit_percentage,
     buy_exchange |-> named.buy_exchange,
     sell_exchange |-> named.sell_exchange]

\* `if portfolio_simulator.check_and_update_balances(opportunity): ... else: ...`
Traded(named, bal, res) ==
    [stage |-> IF res[1] THEN "paper_trade" ELSE "skipped",
     opp |-> named,
     balances |-> res[2],
     call |-> [op |-> "apply", opp |-> named, before |-> bal, ret |-> res[1],
               prev |-> "none"],
     records |-> <<TradeRecord(IF res[1] THEN "SUCCESS" ELSE "SKIPPED", named)>>]

\* check_for_arbitrage from the threshold on, for the named opportunity
GateAndTrade(named, dq, bal) ==
    IF ~MeetsThreshold(named.profit_percentage, dq)
    THEN Quiet("below_threshold", named, bal)
    ELSE Traded(named, bal, CheckAndUpdateBalances(bal, named))

\* `if opportunity:` and what follows
OnOpportunity(opportunity, dq, bal, pair) ==
    IF opportunity.kind # "opp" THEN Quiet("no_opportunity", NoFill, bal)
    ELSE GateAndTrade(NameExchanges(opportunity, pair), dq, bal)

\* a check_for_arbitrage without the top-of-book pre-check
CheckBooksNoPreCheck(okx_book, bybit_book, dq, bal, pair) ==
    IF okx_book = NoBook \/ bybit_book = NoBook THEN Quiet("not_ready", NoFill, bal)
    ELSE OnOpportunity(
             FindDepthAwareOpportunity(okx_book, bybit_book, TRADE_SIZE_USDT, TRADING_FEES),
             dq, bal, pair)

\* a check_for_arbitrage that returns early only when both books are missing;
\* with one missing, the `[0][0]` of the pre-check raises TypeError on None
CheckBooksBothMissing(okx_book, bybit_book, dq, bal, pair) ==
    IF okx_book = NoBook /\ bybit_book = NoBook THEN Quiet("not_ready", NoFill, bal)
    ELSE IF okx_book = NoBook \/ bybit_book = NoBook THEN Quiet("type_error", NoFill, bal)
    ELSE IF PreCheckRaises(okx_book, bybit_book) THEN Quiet("index_error", NoFill, bal)
    ELSE IF ~PreCheckPasses(okx_book, bybit_book) THEN Quiet("no_cross", NoFill, bal)
    ELSE OnOpportunity(
             FindDepthAwareOpportunity(okx_book, bybit_book, TRADE_SIZE_USDT, TRADING_FEES),
             dq, bal, pair)

\* check_for_arbitrage once latest_prices is read
CheckBooks(okx_book, bybit_book, dq, bal, pair) ==
    IF okx_book = NoBook \/ bybit_book = NoBook THEN Quiet("not_ready", NoFill, bal)
    ELSE IF PreCheckRaises(okx_book, bybit_book) THEN Quiet("index_error", NoFill, bal)
    ELSE IF ~PreCheckPasses(okx_book, bybit_book) THEN Quiet("no_cross", NoFill, bal)
    ELSE OnOpportunity(
             FindDepthAwareOpportunity(okx_book, bybit_book, TRADE_SIZE_USDT, TRADING_FEES),
             dq, bal, pair)

\* check_for_arbitrage(pair) on the cache pr, the history hist and the ledger
\* bal: [stage, opp, balances, call], where stage names the return taken,
\* opp is the opportunity found, balances the ledger after the call and call
\* the ledger call made, if any
CheckForArbitrage(pr, hist, bal, pair) ==
    CheckBooks(pr[pair]["okx"], pr[pair]["bybit"], hist[pair], bal, pair)

-----------------------------------------------------------------------------
(* Bounds and the inputs drawn within them                                  *)

MaxOps == 3          \* handler runs explored by Spec
MaxLedgerOps == 2    \* ledger calls explored by SpecLedger
MaxLevels == 2       \* levels per order-book side drawn by SpecDetect

Lvl(p, vn, vd) == <<Int2R(p), R(vn, vd)>>
Book(bids, asks) == [kind |-> "book", bids |-> bids, asks |-> asks]

\* order books the venues send under Spec
BookLow == Book(<<Lvl(80, 2, 1)>>, <<Lvl(100, 2, 1)>>)
BookHigh == Book(<<Lvl(125, 2, 1)>>, <<Lvl(160, 2, 1)>>)
BookThin == Book(<<Lvl(125, 1, 2)>>, <<Lvl(160, 2, 1)>>)
BookNoBids == Book(<<>>, <<Lvl(100, 2, 1)>>)
LiveBooks == {BookLow, BookHigh, BookThin, BookNoBids}

\* tenths of a second between two message arrivals
TimeGaps == {0, MAX_DATA_STALENESS + 1}

OKX_CHANNEL_SEP == "-"
BYBIT_TOPIC_PREFIX == <<"o", "r", "d", "e", "r", "b", "o", "o", "k", ".", "5", "0", ".">>

\* the instrument name a venue puts in its messages for a configured pair:
\* OKXConnector.start subscribes to p.replace('/', '-'), BybitConnector to
\* "orderbook.50." + p.replace('/', '')
WireSymbol(exchange, pair) ==
    IF exchange = "okx" THEN Replace(pair, "/", <<OKX_CHANNEL_SEP>>)
    ELSE BYBIT_TOPIC_PREFIX \o Replace(pair, "/", <<>>)

-----------------------------------------------------------------------------
(* src/connectors/okx_connector.py, src/connectors/bybit_connector.py      *)
(* A frame the exchange sends is text that json.loads accepts, carried as  *)
(* the object it yields, or text it rejects, carried as the text.          *)

TextFrame(text) == [json |-> FALSE, text |-> text]
JsonFrame(obj) == [json |-> TRUE, obj |-> obj]
NoFrame == [kind |-> "None"]

\* asyncio.sleep(5) of `except websockets.exceptions.ConnectionClosed`
CLOSED_BACKOFF == 5
\* asyncio.sleep(10) of `except Exception`
ERROR_BACKOFF == 10

\* the exceptions of the model; all are subclasses of Exception
ExceptionClasses ==
    {"ConnectionClosed", "JSONDecodeError", "KeyError", "TypeError", "OSError", "ValueError"}

\* the instruments the subscribe message names: formatted_pairs for OKX,
\* topics for Bybit
Subscription(exchange) ==
    [i \in 1..Len(TRADING_PAIRS) |-> WireSymbol(exchange, TRADING_PAIRS[i])]

\* how the body of `async for message in ws` ends for one message: the
\* exception it raised if any, the frame it sent, the arguments it called
\* the callback with
Continue(sent, args) == [raised |-> "none", sent |-> sent, args |-> args]
Raise(exc) == [raised |-> exc, sent |-> NoFrame, args |-> <<>>]

\* the body of `async for message in ws` of OKXConnector.start
OkxOnMessage(message) ==
    IF ~message.json /\ message.text = "ping" THEN Continue(TextFrame("pong"), <<>>)
    ELSE IF ~message.json THEN Raise("JSONDecodeError")
    ELSE IF "arg" \in DOMAIN message.obj /\ "data" \in DOMAIN message.obj
    THEN Continue(NoFrame, <<"okx", message.obj>>)
    ELSE Continue(NoFrame, <<>>)

\* the body of `async for message in ws` of BybitConnector.start_public_stream
\* with stream_type "orderbook"
BybitOnMessage(message) ==
    IF ~message.json THEN Raise("JSONDecodeError")
    ELSE IF "op" \in DOMAIN message.obj /\ message.obj.op = "ping"
    THEN IF "req_id" \in DOMAIN message.obj
         THEN Continue(JsonFrame([op |-> "pong", req_id |-> message.obj.req_id]), <<>>)
         ELSE Raise("KeyError")
    ELSE IF "topic" \in DOMAIN message.obj /\ "data" \in DOMAIN message.obj
    THEN Continue(NoFrame, <<message.obj>>)
    ELSE Continue(NoFrame, <<>>)

OnMessage(exchange, message) ==
    IF exchange = "okx" THEN OkxOnMessage(message) ELSE BybitOnMessage(message)

\* what handle_update reads out of its message before `if pair not in
\* TRADING_PAIRS`: the symbol and the order book, or the exception the
\* subscripting raises, which its `except` clause swallows
Parsed(symbol, order_book) == [exc |-> "none", symbol |-> symbol, order_book |-> order_book]
Swallowed(exc) == [exc |-> exc, symbol |-> <<>>, order_book |-> NoBook]

ReadBybit(message) ==
    IF "topic" \notin DOMAIN message THEN Swallowed("KeyError")
    ELSE IF "data" \notin DOMAIN message THEN Swallowed("KeyError")
    ELSE IF "b" \notin DOMAIN message.data \/ "a" \notin DOMAIN message.data
    THEN Swallowed("KeyError")
    ELSE Parsed(message.topic, Book(message.data.b, message.data.a))

ReadOkx(message) ==
    IF "arg" \notin DOMAIN message THEN Swallowed("KeyError")
    ELSE IF "instId" \notin DOMAIN message.arg THEN Swallowed("KeyError")
    ELSE IF "data" \notin DOMAIN message THEN Swallowed("KeyError")
    ELSE IF message.data = <<>> THEN Swallowed("IndexError")
    ELSE IF "bids" \notin DOMAIN message.data[1] \/ "asks" \notin DOMAIN message.data[1]
    THEN Swallowed("KeyError")
    ELSE Parsed(message.arg.instId, Book(message.data[1].bids, message.data[1].asks))

ReadMessage(exchange, message) ==
    IF exchange = "bybit" THEN ReadBybit(message)
    ELSE IF exchange = "okx" THEN ReadOkx(message)
    ELSE Swallowed("return")

\* a price or size string that float() rejects; no number has denominator 0
NonNumeric == <<0, 0>>

\* `float(order_book_data['bids'][0][0])` or `float(order_book_data['asks'][0][0])`
\* raises ValueError, under `if order_book_data.get('bids') and
\* order_book_data.get('asks')`
UpdatePriceRaises(order_book_data) ==
    /\ order_book_data.bids # <<>>
    /\ order_book_data.asks # <<>>
    /\ \/ order_book_data.bids[1][1] = NonNumeric
       \/ order_book_data.asks[1][1] = NonNumeric

\* the exception that leaves handle_update(exchange, message), rd being what
\* it read out of the message: "none" when it returns.  Its `except` clause
\* names KeyError, IndexError and TypeError.
HandleUpdateRaises(exchange, rd) ==
    IF rd.exc # "none" THEN "none"
    ELSE IF PairOfMessage(exchange, rd.symbol) \notin PairSet THEN "none"
    ELSE IF UpdatePriceRaises(rd.order_book) THEN "ValueError"
    ELSE "none"

\* what a connector last did with a message: at is the operation count when
\* it did, cache the prices it found
NoLast == [at |-> -1, message |-> NoFrame, sent |-> NoFrame, args |-> <<>>,
           raised |-> "none", cache |-> InitialPrices]

\* a connector entering `while True`: pc is "connect" before
\* websockets.connect, "read" inside `async for`, "sleep" inside
\* asyncio.sleep and "exited" once the coroutine has returned or raised
InitialConn ==
    [ex \in ExchangeSet |->
        [pc |-> "connect", slept |-> 0, cause |-> "none", subscribed |-> <<>>,
         connection |-> 0, last |-> NoLast]]

\* a connector whose only `except` clause is the one for ConnectionClosed
ExceptClosedOnly(c, exc) ==
    IF exc = "ConnectionClosed"
    THEN [c EXCEPT !.pc = "sleep", !.slept = CLOSED_BACKOFF, !.cause = exc,
                   !.subscribed = <<>>]
    ELSE [c EXCEPT !.pc = "exited", !.cause = exc, !.subscribed = <<>>]

\* the two `except` clauses of a connector, for an exception raised in `try`
Except(c, exc) ==
    IF exc = "ConnectionClosed"
    THEN [c EXCEPT !.pc = "sleep", !.slept = CLOSED_BACKOFF, !.cause = exc,
                   !.subscribed = <<>>]
    ELSE IF exc \in ExceptionClasses
    THEN [c EXCEPT !.pc = "sleep", !.slept = ERROR_BACKOFF, !.cause = exc,
                   !.subscribed = <<>>]
    ELSE [c EXCEPT !.pc = "exited", !.cause = exc, !.subscribed = <<>>]

\* `async with websockets.connect(...) as ws:` up to `async for`, the
\* connection opened and the subscribe message sent
Opened(c, exchange) ==
    [c EXCEPT !.pc = "read", !.slept = 0, !.cause = "none",
              !.subscribed = Subscription(exchange), !.connection = @ + 1]

\* `await callback(...)` raises TypeError unless it passes the two arguments
\* handle_update(exchange, message) takes
CallRaises(args) == Len(args) # 2

-----------------------------------------------------------------------------
(* src/live_trader.py: main and the tasks it creates.  The event loop runs *)
(* one task at a time and changes task only where the running one awaits   *)
(* something that is not ready: a connector in `async for message in ws`   *)
(* ("recv"), the periodic task in asyncio.sleep(30) ("sleep").  Inside     *)
(* handle_update, check_for_arbitrage and the two ledger methods nothing   *)
(* suspends: `await check_for_arbitrage(pair)` runs a coroutine that never *)
(* awaits, and the ledger methods are plain functions.                     *)

Tasks == {"okx", "bybit", "periodic"}

\* a position inside check_and_update_balances that awaits before each write
AwaitPointsInsideApply == {"recv", "sleep", "write"}

\* the positions at which a task is suspended
AwaitPoints == {"recv", "sleep"}

NoTaskFrame == [fn |-> "none"]

\* the tasks as asyncio.create_task leaves them once each has reached its
\* first await; last names the task that has just returned from a ledger call
InitialTask ==
    [pc |-> [t \in Tasks |-> IF t = "periodic" THEN "sleep" ELSE "recv"],
     frame |-> [t \in Tasks |-> NoTaskFrame],
     last |-> "none"]

\* the event loop can run t: every other task is suspended
Runs(t) == \A u \in Tasks \ {t} : task.pc[u] \in AwaitPoints

\* the two tests of check_and_update_balances
FundsShort(bal, buy_ex, sell_ex, base_asset, quote_asset, opp) ==
    \/ RLt(bal[buy_ex][quote_asset], opp.quote_asset_cost)
    \/ RLt(bal[sell_ex][base_asset], opp.base_asset_amount)

\* the four assignments of check_and_update_balances in the order of the
\* code, each <<exchange, asset, amount added>>
TradeWrites(buy_ex, sell_ex, base_asset, quote_asset, opp) ==
    <<<<buy_ex, quote_asset, RNeg(opp.quote_asset_cost)>>,
      <<buy_ex, base_asset, opp.base_asset_amount>>,
      <<sell_ex, base_asset, RNeg(opp.base_asset_amount)>>,
      <<sell_ex, quote_asset, opp.quote_asset_revenue>>>>

\* the assignments of one iteration of `for ex in exchanges` of
\* check_and_perform_rebalance, once deviation and amount_to_move are computed
TransferOf(asset, ex, deviation, amount_to_move) ==
    IF RGt(RAbs(deviation), REBALANCE_THRESHOLD_PERCENTAGE)
    THEN IF RGt(deviation, RZero)
         THEN <<<<ex, asset, RNeg(amount_to_move)>>, <<TargetEx(ex), asset, amount_to_move>>>>
         ELSE <<<<ex, asset, amount_to_move>>, <<TargetEx(ex), asset, RNeg(amount_to_move)>>>>
    ELSE <<>>

TransferAgainst(bal, asset, ex, ideal) ==
    TransferOf(asset, ex,
               RDiv(RSub(bal[ex][asset], ideal), ideal),
               RMul(RAbs(RSub(bal[ex][asset], ideal)), REBALANCE_AMOUNT_PERCENTAGE))

\* one iteration of `for ex in exchanges`, under `if total > 0`
TransferWrites(bal, asset, ex, total) ==
    IF RGt(total, RZero)
    THEN TransferAgainst(bal, asset, ex, RDiv(total, Int2R(Len(Exchanges))))
    ELSE <<>>

\* the assets check_and_perform_rebalance goes through: USDT, then the base
\* asset of each pair
RebalanceAssets == <<USDT>> \o [i \in 1..Len(TRADING_PAIRS) |-> BaseOf(TRADING_PAIRS[i])]

\* sum(self.balances[ex][asset] for ex in exchanges)
TotalAcross(bal, asset) == RAdd(bal[Exchanges[1]][asset], bal[Exchanges[2]][asset])

\* the frame of check_and_perform_rebalance after an iteration of `for ex in
\* exchanges`: the next exchange, else the next asset with its total, else
\* (ai = 0) the return
NextIteration(f, bal) ==
    IF f.ei < Len(Exchanges) THEN [f EXCEPT !.ei = @ + 1, !.writes = <<>>]
    ELSE IF f.ai < Len(RebalanceAssets)
    THEN [f EXCEPT !.ai = @ + 1, !.ei = 1, !.writes = <<>>,
                   !.total = TotalAcross(bal, RebalanceAssets[f.ai + 1])]
    ELSE [f EXCEPT !.ai = 0, !.writes = <<>>]

-----------------------------------------------------------------------------
(* Spec: the handlers of live_trader.py on one PriceManager and one        *)
(* PortfolioSimulator, from the state the module builds at import.         *)

Idle == [fn |-> "none"]
NoCheck == [stage |-> "none", pair |-> NoPair, opp |-> NoFill, t_okx |-> 0, t_bybit |-> 0,
            call |-> NoCall, before |-> InitialBalances(RZero),
            after |-> InitialBalances(RZero), history |-> <<>>, records |-> <<>>]

Init ==
    /\ balances = InitialBalances(Int2R(1000))
    /\ ledger_call = NoCall
    /\ prices = InitialPrices
    /\ price_history = InitialHistory
    /\ clock = 0
    /\ recv_time = [pair \in PairSet |-> [ex \in ExchangeSet |-> 0]]
    /\ last_check = NoCheck
    /\ det_in = Idle
    /\ det_out = Idle
    /\ last_sent = InitialPrices
    /\ conn = InitialConn
    /\ task = InitialTask
    /\ ops = 0

\* the state handle_update leaves: chk is what check_for_arbitrage did and
\* times the receipt times with this message's
Settle(pair, upd, chk, times) ==
    /\ prices' = upd[1]
    /\ price_history' = upd[2]
    /\ recv_time' = times
    /\ balances' = chk.balances
    /\ ledger_call' = IF chk.call = NoCall THEN ledger_call
                      ELSE [chk.call EXCEPT !.prev = ledger_call.op]
    /\ last_check' = [stage |-> chk.stage, pair |-> pair, opp |-> chk.opp,
                      t_okx |-> times[pair]["okx"], t_bybit |-> times[pair]["bybit"],
                      call |-> chk.call, before |-> balances, after |-> chk.balances,
                      history |-> upd[2][pair], records |-> chk.records]

\* a check_for_arbitrage(pair) that reads the cache as it was before the update
CheckBeforeUpdate(exchange, pair, upd, now) ==
    Settle(pair, upd, CheckForArbitrage(prices, price_history, balances, pair),
           [recv_time EXCEPT ![pair][exchange] = now])

\* `await check_for_arbitrage(pair)` on the cache update_price left
CheckAfterUpdate(exchange, pair, upd, now) ==
    Settle(pair, upd, CheckForArbitrage(upd[1], upd[2], balances, pair),
           [recv_time EXCEPT ![pair][exchange] = now])

\* handle_update from `if pair not in TRADING_PAIRS: return` on
Accept(exchange, pair, order_book, now) ==
    IF pair \notin PairSet
    THEN UNCHANGED <<balances, ledger_call, prices, price_history, recv_time, last_check>>
    ELSE CheckAfterUpdate(exchange, pair,
             UpdatePrice(prices, price_history, exchange, pair, order_book), now)

\* handle_update(exchange, message) for a well-formed order-book message
\* naming `symbol` and carrying `order_book`, arriving dt after the last one
HandleUpdate(exchange, symbol, order_book, dt) ==
    /\ ops < MaxOps
    /\ ops' = ops + 1
    /\ clock' = clock + dt
    /\ UNCHANGED <<det_in, det_out, conn, task>>
    /\ IF exchange \notin {"bybit", "okx"}
       THEN UNCHANGED <<balances, ledger_call, prices, price_history, recv_time, last_check>>
       ELSE Accept(exchange, PairOfMessage(exchange, symbol), order_book, clock + dt)

\* one round of periodic_status_update: the rebalance after the sleep
PeriodicStatusUpdate ==
    /\ ops < MaxOps
    /\ ops' = ops + 1
    /\ balances' = CheckAndPerformRebalance(balances)
    /\ ledger_call' = [op |-> "rebalance", opp |-> NoFill, before |-> balances, ret |-> TRUE,
                       prev |-> ledger_call.op]
    /\ UNCHANGED <<prices, price_history, clock, recv_time, last_check, det_in, det_out,
                   last_sent, conn, task>>

\* an exchange sends order_book for a configured pair, dt after the last message
VenueSends(exchange, pair, order_book, dt) ==
    /\ HandleUpdate(exchange, WireSymbol(exchange, pair), order_book, dt)
    /\ last_sent' = [last_sent EXCEPT ![pair][exchange] = order_book]

\* an exchange sends an order book for an instrument that is not configured
StrangerSends(exchange) ==
    /\ HandleUpdate(exchange, WireSymbol(exchange, BTC_USDT), BookLow, 0)
    /\ UNCHANGED last_sent

\* handle_update is called for an exchange it does not know
UnknownVenueSends ==
    /\ HandleUpdate("kraken", WireSymbol("okx", SOL_USDT), BookLow, 0)
    /\ UNCHANGED last_sent

Next ==
    \/ \E exchange \in ExchangeSet, pair \in PairSet, order_book \in LiveBooks, dt \in TimeGaps :
           VenueSends(exchange, pair, order_book, dt)
    \/ \E exchange \in ExchangeSet : StrangerSends(exchange)
    \/ UnknownVenueSends
    \/ PeriodicStatusUpdate

Spec == Init /\ [][Next]_vars

-----------------------------------------------------------------------------
(* SpecLedger: a PortfolioSimulator on its own, from any of a set of       *)
(* non-negative balances, under any sequence of its two operations.        *)

\* how an asset may be split over <<okx, bybit>> when SpecLedger starts
InitialSplits == {<<0, 0>>, <<0, 2>>, <<3, 0>>, <<2, 3>>, <<3, 3>>}

\* the opportunities SpecLedger hands to the ledger: each pair, each way of
\* naming the two exchanges, <<base_asset_amount, quote_asset_cost, quote_asset_revenue>>
LedgerTrades == {<<Int2R(1), Int2R(2), R(5, 2)>>, <<Int2R(3), Int2R(3), R(7, 2)>>}
ExchangeNames == {"OKX", "Bybit"}
LedgerOpps ==
    {[kind |-> "opp", pair |-> p, buy_exchange |-> b, sell_exchange |-> sl,
      base_asset_amount |-> t[1], quote_asset_cost |-> t[2], quote_asset_revenue |-> t[3]] :
        p \in PairSet, b \in ExchangeNames, sl \in ExchangeNames, t \in LedgerTrades}

InitLedger ==
    /\ \E split \in [AssetSet -> InitialSplits] :
           balances = [ex \in ExchangeSet |-> [a \in AssetSet |->
                          Int2R(split[a][IF ex = Exchanges[1] THEN 1 ELSE 2])]]
    /\ ledger_call = NoCall
    /\ prices = InitialPrices
    /\ price_history = InitialHistory
    /\ clock = 0
    /\ recv_time = [pair \in PairSet |-> [ex \in ExchangeSet |-> 0]]
    /\ last_check = NoCheck
    /\ det_in = Idle
    /\ det_out = Idle
    /\ last_sent = InitialPrices
    /\ conn = InitialConn
    /\ task = InitialTask
    /\ ops = 0

\* the state a call check_and_update_balances(opp) leaves, res being its result
Applied(opp, res) ==
    /\ balances' = res[2]
    /\ ledger_call' = [op |-> "apply", opp |-> opp, before |-> balances, ret |-> res[1],
                       prev |-> ledger_call.op]

\* portfolio_simulator.check_and_update_balances(opp)
LedgerApply(opp) ==
    /\ ops < MaxLedgerOps
    /\ ops' = ops + 1
    /\ Applied(opp, CheckAndUpdateBalances(balances, opp))
    /\ UNCHANGED <<prices, price_history, clock, recv_time, last_check, det_in, det_out,
                   last_sent, conn, task>>

\* portfolio_simulator.check_and_perform_rebalance()
LedgerRebalance ==
    /\ ops < MaxLedgerOps
    /\ ops' = ops + 1
    /\ balances' = CheckAndPerformRebalance(balances)
    /\ ledger_call' = [op |-> "rebalance", opp |-> NoFill, before |-> balances, ret |-> TRUE,
                       prev |-> ledger_call.op]
    /\ UNCHANGED <<prices, price_history, clock, recv_time, last_check, det_in, det_out,
                   last_sent, conn, task>>

NextLedger ==
    \/ \E opp \in LedgerOpps : LedgerApply(opp)
    \/ LedgerRebalance

SpecLedger == InitLedger /\ [][NextLedger]_vars

-----------------------------------------------------------------------------
(* SpecDetect: the matching functions on their own, one call on inputs     *)
(* drawn from every order book within the bounds.                          *)

DetPrices == {50, 80, 100, 125}
DetVolumes == {R(1, 2), Int2R(2)}
DetLevels == {<<Int2R(p), v>> : p \in DetPrices, v \in DetVolumes}

\* the sides of at most MaxLevels levels whose prices strictly rise (asks,
\* dir = 1) or strictly fall (bids, dir = -1)
SortedSides(dir) ==
    UNION {{sd \in [1..k -> DetLevels] :
               \A i \in 1..(k - 1) : dir * sd[i][1][1] < dir * sd[i + 1][1][1]} :
           k \in 0..MaxLevels}

AskSides == SortedSides(1)
BidSides == SortedSides(-1)

\* the order books a venue can publish: an empty side, or best bid < best ask
DetBooks ==
    {Book(b, a) : <<b, a>> \in
        {ba \in BidSides \X AskSides :
            ba[1] = <<>> \/ ba[2] = <<>> \/ ba[1][1][1][1] < ba[2][1][1][1]}}

ZeroFees == [okx |-> [taker_fee |-> RZero], bybit |-> [taker_fee |-> RZero]]
\* <<trade_size_usdt, fees>> of a call: the configured ones, and a larger
\* size free of fees
DetSettings == {<<TRADE_SIZE_USDT, TRADING_FEES>>, <<Int2R(200), ZeroFees>>}

\* sides for the walks alone: any order of prices, zero sizes included
WalkLevels == {<<Int2R(p), v>> : p \in {80, 100}, v \in {RZero, R(1, 2), Int2R(2)}}
WalkSides == UNION {[1..k -> WalkLevels] : k \in 0..MaxLevels}
FillAmounts == {Int2R(-1), RZero, R(1, 2), Int2R(1), R(5, 2), Int2R(5)}
SpendAmounts == {Int2R(-1), RZero, R(1, 2), Int2R(1), Int2R(100), Int2R(500)}

\* a call on one ask level of 5 at 100 on A and one bid level of 5 at 101 on
\* B, whatever the other two sides hold
ExampleAsksA == <<Lvl(100, 5, 1)>>
ExampleBidsB == <<Lvl(101, 5, 1)>>
ExampleBidsA == {<<>>, <<Lvl(99, 5, 1)>>}
ExampleAsksB == {<<>>, <<Lvl(102, 5, 1)>>}

\* fees that differ between the venues
SplitFees == {[okx |-> [taker_fee |-> R(1, 100)], bybit |-> [taker_fee |-> R(1, 1000)]],
              [okx |-> [taker_fee |-> R(1, 1000)], bybit |-> [taker_fee |-> R(1, 100)]]}

\* books whose mid prices lie close together, for checks under a small but
\* positive volatility: OKX sent GateBookOkx once, then Bybit sent the same
\* book k times
MaxRepeats == 4
GateBookOkx == Book(<<Lvl(99, 2, 1)>>, <<Lvl(100, 2, 1)>>)
GateBooksBybit == {Book(<<Lvl(110, 2, 1)>>, <<Lvl(111, 2, 1)>>),
                   Book(<<Lvl(101, 2, 1)>>, <<Lvl(102, 2, 1)>>)}
HistoryAfter(okx_book, bybit_book, k) ==
    <<MidPrice(okx_book)>> \o [i \in 1..k |-> MidPrice(bybit_book)]

InitDetect ==
    /\ balances = InitialBalances(Int2R(1000))
    /\ ledger_call = NoCall
    /\ prices = InitialPrices
    /\ price_history = InitialHistory
    /\ clock = 0
    /\ recv_time = [pair \in PairSet |-> [ex \in ExchangeSet |-> 0]]
    /\ last_check = NoCheck
    /\ det_in = Idle
    /\ det_out = Idle
    /\ last_sent = InitialPrices
    /\ conn = InitialConn
    /\ task = InitialTask
    /\ ops = 0

DetectFrame ==
    /\ ops' = 1
    /\ UNCHANGED <<balances, ledger_call, prices, price_history, clock, recv_time, last_check,
                   last_sent, conn, task>>

\* find_depth_aware_opportunity(order_book_a, order_book_b, trade_size_usdt, fees)
DetectCall(order_book_a, order_book_b, trade_size_usdt, fees) ==
    /\ DetectFrame
    /\ det_in' = [fn |-> "find", a |-> order_book_a, b |-> order_book_b,
                  trade_size |-> trade_size_usdt, fees |-> fees]
    /\ det_out' = FindDepthAwareOpportunity(order_book_a, order_book_b, trade_size_usdt, fees)

\* check_for_arbitrage on a cache holding okx_book and bybit_book for the
\* pair, with an empty mid-price history and the initial ledger
CheckCall(okx_book, bybit_book) ==
    /\ DetectFrame
    /\ det_in' = [fn |-> "check", a |-> okx_book, b |-> bybit_book, history |-> <<>>]
    /\ det_out' = CheckBooks(okx_book, bybit_book, <<>>, balances, SOL_USDT)

\* check_for_arbitrage on a cache holding okx_book and bybit_book, after the
\* updates that left the history dq
CheckAfter(okx_book, bybit_book, dq) ==
    /\ DetectFrame
    /\ det_in' = [fn |-> "check", a |-> okx_book, b |-> bybit_book, history |-> dq]
    /\ det_out' = CheckBooks(okx_book, bybit_book, dq, balances, SOL_USDT)

\* calculate_execution_details(order_book_side, trade_amount, _)
FillCall(order_book_side, trade_amount) ==
    /\ DetectFrame
    /\ det_in' = [fn |-> "fill", side |-> order_book_side, amount |-> trade_amount]
    /\ det_out' = CalculateExecutionDetails(order_book_side, trade_amount)

\* get_amount_out(order_book_side, amount_in, is_buy_base)
AmountOutCall(order_book_side, amount_in, is_buy_base) ==
    /\ DetectFrame
    /\ det_in' = [fn |-> "amount_out", side |-> order_book_side, amount |-> amount_in,
                  is_buy_base |-> is_buy_base]
    /\ det_out' = AmountOutWalk(order_book_side, amount_in, is_buy_base)

NextDetect ==
    \/ ops = 0 /\ \E a \in DetBooks, b \in DetBooks, st \in DetSettings :
                      DetectCall(a, b, st[1], st[2])
    \/ ops = 0 /\ \E bids_a \in ExampleBidsA, asks_b \in ExampleAsksB :
                      DetectCall(Book(bids_a, ExampleAsksA), Book(ExampleBidsB, asks_b),
                                 TRADE_SIZE_USDT, TRADING_FEES)
    \/ ops = 0 /\ \E a \in LiveBooks, b \in LiveBooks, fees \in SplitFees :
                      DetectCall(a, b, TRADE_SIZE_USDT, fees)
    \/ ops = 0 /\ \E a \in DetBooks, b \in DetBooks : CheckCall(a, b)
    \/ ops = 0 /\ \E bybit_book \in GateBooksBybit, k \in 1..MaxRepeats :
                      CheckAfter(GateBookOkx, bybit_book,
                                 HistoryAfter(GateBookOkx, bybit_book, k))
    \/ ops = 0 /\ \E sd \in WalkSides, amt \in FillAmounts : FillCall(sd, amt)
    \/ ops = 0 /\ \E sd \in WalkSides, amt \in SpendAmounts, buy \in BOOLEAN :
                      AmountOutCall(sd, amt, buy)

SpecDetect == InitDetect /\ [][NextDetect]_vars

-----------------------------------------------------------------------------
(* SpecConn: the two connectors as main() starts them, each in its own     *)
(* `while True`, with handle_update as the callback of both.  The network  *)
(* chooses how each connection attempt ends, what each connection          *)
(* delivers and when it breaks.  Prices inside order-book messages are     *)
(* numeric strings.                                                        *)

MaxConnOps == 4

\* an order-book message of the exchange's orderbook stream
BookMessage(exchange, pair, order_book) ==
    IF exchange = "okx"
    THEN JsonFrame([arg |-> [channel |-> "books5", instId |-> WireSymbol("okx", pair)],
                    data |-> <<[bids |-> order_book.bids, asks |-> order_book.asks]>>])
    ELSE JsonFrame([topic |-> WireSymbol("bybit", pair),
                    data |-> [b |-> order_book.bids, a |-> order_book.asks]])

\* what else a connection delivers: keep-alives, text that is not JSON,
\* acknowledgements, messages with a part missing
OkxFrames ==
    {TextFrame("ping"), TextFrame("pong"),
     JsonFrame([event |-> "subscribe", arg |-> [channel |-> "books5"]]),
     JsonFrame([arg |-> [channel |-> "books5", instId |-> WireSymbol("okx", SOL_USDT)],
                data |-> <<>>]),
     JsonFrame([arg |-> [channel |-> "books5"], data |-> <<[bids |-> <<>>, asks |-> <<>>]>>])}
BybitFrames ==
    {TextFrame("pong"),
     JsonFrame([op |-> "ping", req_id |-> "1"]),
     JsonFrame([op |-> "ping"]),
     JsonFrame([success |-> TRUE, op |-> "subscribe"]),
     JsonFrame([topic |-> WireSymbol("bybit", SOL_USDT)])}
OtherFrames(exchange) == IF exchange = "okx" THEN OkxFrames ELSE BybitFrames
\* a book whose best ask price is not a number
BookNonNumeric == Book(<<Lvl(80, 2, 1)>>, <<<<NonNumeric, Int2R(2)>>>>)
ConnBooks == {BookLow, BookHigh, BookNoBids, BookNonNumeric}
ConnectOutcomes == {"open", "refused", "closed"}

\* the connector after the body of `async for` ran on message: out is what
\* the body did, raised the exception that left it, "none" if it completed
AfterMessage(c, message, out, raised) ==
    [(IF raised = "none" THEN c ELSE Except(c, raised)) EXCEPT
        !.last = [at |-> ops + 1, message |-> message, sent |-> out.sent,
                  args |-> out.args, raised |-> raised, cache |-> prices]]

\* a handle_update that stores the book and leaves the matching for later
HandledWithoutCheck(exchange, rd, now) ==
    IF rd.exc # "none" \/ PairOfMessage(exchange, rd.symbol) \notin PairSet
    THEN UNCHANGED <<balances, ledger_call, prices, price_history, recv_time, last_check>>
    ELSE /\ prices' = [prices EXCEPT ![PairOfMessage(exchange, rd.symbol)][exchange] =
                                         rd.order_book]
         /\ UNCHANGED <<balances, ledger_call, price_history, recv_time, last_check>>

\* handle_update(exchange, message) with rd what it read out of the message
Handled(exchange, rd, now) ==
    IF rd.exc # "none"
    THEN UNCHANGED <<balances, ledger_call, prices, price_history, recv_time, last_check>>
    ELSE IF HandleUpdateRaises(exchange, rd) = "ValueError"
    THEN \* update_price has stored the book when float() raises
         /\ prices' = [prices EXCEPT ![PairOfMessage(exchange, rd.symbol)][exchange] =
                                         rd.order_book]
         /\ UNCHANGED <<balances, ledger_call, price_history, recv_time, last_check>>
    ELSE Accept(exchange, PairOfMessage(exchange, rd.symbol), rd.order_book, now)

\* the body of `async for` on message, the callback included
Dispatched(exchange, message, out) ==
    IF out.raised # "none" \/ out.args = <<>>
    THEN /\ conn' = [conn EXCEPT ![exchange] = AfterMessage(@, message, out, out.raised)]
         /\ UNCHANGED <<balances, ledger_call, prices, price_history, recv_time, last_check>>
    ELSE IF CallRaises(out.args)
    THEN /\ conn' = [conn EXCEPT ![exchange] = AfterMessage(@, message, out, "TypeError")]
         /\ UNCHANGED <<balances, ledger_call, prices, price_history, recv_time, last_check>>
    ELSE /\ conn' = [conn EXCEPT ![exchange] =
                        AfterMessage(@, message, out,
                            HandleUpdateRaises(out.args[1],
                                               ReadMessage(out.args[1], out.args[2])))]
         /\ Handled(out.args[1], ReadMessage(out.args[1], out.args[2]), clock)

\* one iteration of `async for message in ws`
Receive(exchange, message) ==
    /\ ops < MaxConnOps
    /\ conn[exchange].pc = "read"
    /\ ops' = ops + 1
    /\ Dispatched(exchange, message, OnMessage(exchange, message))
    /\ UNCHANGED <<clock, det_in, det_out, task>>

\* the exchange publishes order_book for a subscribed instrument
VenuePublishes(exchange, pair, order_book) ==
    /\ Receive(exchange, BookMessage(exchange, pair, order_book))
    /\ last_sent' = [last_sent EXCEPT ![pair][exchange] = order_book]

\* the connection delivers anything else
VenueDelivers(exchange, message) ==
    /\ Receive(exchange, message)
    /\ UNCHANGED last_sent

\* `async with websockets.connect(...)` and the subscribe: the connection
\* opens and the subscribe is sent, or the connection is refused (OSError),
\* or it closes under the subscribe (ConnectionClosed)
Connect(exchange, outcome) ==
    /\ ops < MaxConnOps
    /\ conn[exchange].pc = "connect"
    /\ ops' = ops + 1
    /\ conn' = [conn EXCEPT ![exchange] =
                   IF outcome = "open" THEN Opened(@, exchange)
                   ELSE IF outcome = "refused" THEN Except(@, "OSError")
                   ELSE Except([@ EXCEPT !.connection = @ + 1], "ConnectionClosed")]
    /\ UNCHANGED <<balances, ledger_call, prices, price_history, clock, recv_time, last_check,
                   det_in, det_out, last_sent, task>>

\* the connection ends while `async for` waits: a clean close ends the
\* iteration and the loop goes round at once, any other end raises
\* ConnectionClosed
ConnectionEnds(exchange, clean) ==
    /\ ops < MaxConnOps
    /\ conn[exchange].pc = "read"
    /\ ops' = ops + 1
    /\ conn' = [conn EXCEPT ![exchange] =
                   IF clean
                   THEN [@ EXCEPT !.pc = "connect", !.slept = 0, !.cause = "none",
                                  !.subscribed = <<>>]
                   ELSE Except(@, "ConnectionClosed")]
    /\ UNCHANGED <<balances, ledger_call, prices, price_history, clock, recv_time, last_check,
                   det_in, det_out, last_sent, task>>

\* asyncio.sleep returns and `while True` goes round
Wake(exchange) ==
    /\ ops < MaxConnOps
    /\ conn[exchange].pc = "sleep"
    /\ ops' = ops + 1
    /\ clock' = clock + conn[exchange].slept
    /\ conn' = [conn EXCEPT ![exchange].pc = "connect"]
    /\ UNCHANGED <<balances, ledger_call, prices, price_history, recv_time, last_check,
                   det_in, det_out, last_sent, task>>

NextConn ==
    \/ \E exchange \in ExchangeSet, outcome \in ConnectOutcomes : Connect(exchange, outcome)
    \/ \E exchange \in ExchangeSet, pair \in PairSet, order_book \in ConnBooks :
           VenuePublishes(exchange, pair, order_book)
    \/ \E exchange \in ExchangeSet : \E message \in OtherFrames(exchange) :
           VenueDelivers(exchange, message)
    \/ \E exchange \in ExchangeSet, clean \in BOOLEAN : ConnectionEnds(exchange, clean)
    \/ \E exchange \in ExchangeSet : Wake(exchange)

SpecConn == Init /\ [][NextConn]_vars

-----------------------------------------------------------------------------
(* SpecWindow: a PriceManager on its own, from an empty history or from    *)
(* one that earlier updates have filled or nearly filled, under any        *)
(* sequence of update_price and calculate_volatility calls.                *)

MaxWindowOps == 3
\* calculate_volatility is called on histories of at most this many samples
MaxVolSamples == 3

\* the i-th book OKX sent before SpecWindow starts; its mid price is i + 1
EarlierBook(i) == Book(<<Lvl(i, 2, 1)>>, <<Lvl(i + 2, 2, 1)>>)
\* how many updates OKX made for each pair before SpecWindow starts
EarlierUpdates == {0, 1, VOLATILITY_LOOKBACK_PERIOD - 1, VOLATILITY_LOOKBACK_PERIOD}
WindowBooks == {BookLow, BookHigh, BookNoBids}
WindowPairs == PairSet \cup {BTC_USDT}

\* the PriceManager after OKX made n updates for every pair
InitWindowAfter(n) ==
    /\ prices = [pair \in PairSet |-> [ex \in ExchangeSet |->
                    IF ex = "okx" /\ n > 0 THEN EarlierBook(n) ELSE NoBook]]
    /\ price_history = [pair \in PairSet |-> [i \in 1..n |-> MidPrice(EarlierBook(i))]]
    /\ last_sent = prices

InitWindow ==
    /\ \E n \in EarlierUpdates : InitWindowAfter(n)
    /\ balances = InitialBalances(Int2R(1000))
    /\ ledger_call = NoCall
    /\ clock = 0
    /\ recv_time = [pair \in PairSet |-> [ex \in ExchangeSet |-> 0]]
    /\ last_check = NoCheck
    /\ det_in = Idle
    /\ det_out = Idle
    /\ conn = InitialConn
    /\ task = InitialTask
    /\ ops = 0

WindowFrame ==
    /\ ops < MaxWindowOps
    /\ ops' = ops + 1
    /\ UNCHANGED <<balances, ledger_call, clock, recv_time, last_check, conn, task>>

\* the PriceManager after update_price, upd being what it leaves for a pair
\* in self.prices
Updated(exchange, pair, order_book_data, upd) ==
    IF pair \in PairSet
    THEN /\ prices' = upd[1]
         /\ price_history' = upd[2]
         /\ last_sent' = [last_sent EXCEPT ![pair][exchange] = order_book_data]
    ELSE UNCHANGED <<prices, price_history, last_sent>>

\* price_manager.update_price(exchange, pair, order_book_data); the call
\* recorded keeps the history the pair had before it
UpdatePriceCall(exchange, pair, order_book_data) ==
    /\ WindowFrame
    /\ det_in' = [fn |-> "update_price", exchange |-> exchange, pair |-> pair,
                  order_book_data |-> order_book_data,
                  before |-> IF pair \in PairSet THEN price_history[pair] ELSE <<>>]
    /\ det_out' = Idle
    /\ Updated(exchange, pair, order_book_data,
               IF pair \in PairSet
               THEN UpdatePrice(prices, price_history, exchange, pair, order_book_data)
               ELSE <<prices, price_history>>)

\* price_manager.calculate_volatility(pair); the result is recorded squared
VolatilityCall(pair) ==
    /\ WindowFrame
    /\ Len(price_history[pair]) <= MaxVolSamples
    /\ det_in' = [fn |-> "calculate_volatility", pair |-> pair,
                  samples |-> Len(price_history[pair])]
    /\ det_out' = [fn |-> "calculate_volatility",
                   squared |-> VolatilitySquared(price_history[pair])]
    /\ UNCHANGED <<prices, price_history, last_sent>>

NextWindow ==
    \/ \E exchange \in ExchangeSet, pair \in WindowPairs, order_book_data \in WindowBooks :
           UpdatePriceCall(exchange, pair, order_book_data)
    \/ \E pair \in PairSet : VolatilityCall(pair)

SpecWindow == InitWindow /\ [][NextWindow]_vars

-----------------------------------------------------------------------------
(* SpecTasks: the three tasks of main() on one ledger, statement by        *)
(* statement inside the two ledger methods.  A connector task that         *)
(* receives a message runs handle_update up to the ledger call with the    *)
(* opportunity check_for_arbitrage found; the ledger starts from holdings  *)
(* under which trades can pass the funds test and rebalances move.         *)

MaxTaskOps == 2

TaskSplits == {<<2, 3>>, <<3, 0>>}
TaskOpps == {opp \in LedgerOpps : opp.pair = SOL_USDT}
Handlers == Tasks \ {"periodic"}

InitTasks ==
    /\ \E split \in [AssetSet -> TaskSplits] :
           balances = [ex \in ExchangeSet |-> [a \in AssetSet |->
                          Int2R(split[a][IF ex = Exchanges[1] THEN 1 ELSE 2])]]
    /\ ledger_call = NoCall
    /\ prices = InitialPrices
    /\ price_history = InitialHistory
    /\ clock = 0
    /\ recv_time = [pair \in PairSet |-> [ex \in ExchangeSet |-> 0]]
    /\ last_check = NoCheck
    /\ det_in = Idle
    /\ det_out = Idle
    /\ last_sent = InitialPrices
    /\ conn = InitialConn
    /\ task = InitialTask
    /\ ops = 0

TaskFrame ==
    UNCHANGED <<prices, price_history, clock, recv_time, last_check, det_in, det_out,
                last_sent, conn>>

\* the task t moves to position pc with frame f; last is the task that has
\* just returned from a ledger call, if this step is such a return
Moves(t, pc, f, last) ==
    task' = [pc |-> [task.pc EXCEPT ![t] = pc],
             frame |-> [task.frame EXCEPT ![t] = f],
             last |-> last]

\* a message arrives for handler t, and handle_update runs up to
\* `portfolio_simulator.check_and_update_balances(opportunity)`
HandlerReceives(t, opp) ==
    /\ ops < MaxTaskOps
    /\ Runs(t)
    /\ task.pc[t] = "recv"
    /\ ops' = ops + 1
    /\ Moves(t, "funds", [fn |-> "check_and_update_balances", opp |-> opp,
                          writes |-> <<>>, checked |-> balances], "none")
    /\ UNCHANGED <<balances, ledger_call>>
    /\ TaskFrame

\* the two `if ... < ...: return False` of check_and_update_balances
FundsTest(t, opp) ==
    /\ Runs(t)
    /\ task.pc[t] = "funds"
    /\ IF FundsShort(balances, Lower(opp.buy_exchange), Lower(opp.sell_exchange),
                     BaseOf(opp.pair), QuoteOf(opp.pair), opp)
       THEN /\ Moves(t, "recv", NoTaskFrame, t)
            /\ ledger_call' = [op |-> "apply", opp |-> opp, before |-> balances,
                               ret |-> FALSE, prev |-> ledger_call.op]
       ELSE /\ Moves(t, "write",
                     [task.frame[t] EXCEPT
                         !.checked = balances,
                         !.writes = TradeWrites(Lower(opp.buy_exchange),
                                                Lower(opp.sell_exchange),
                                                BaseOf(opp.pair), QuoteOf(opp.pair), opp)],
                     "none")
            /\ UNCHANGED ledger_call
    /\ UNCHANGED <<balances, ops>>
    /\ TaskFrame

\* the next of the four assignments of check_and_update_balances, and
\* `return True` after the last
TradeWrite(t, f) ==
    /\ Runs(t)
    /\ task.pc[t] = "write"
    /\ balances' = Credit(balances, f.writes[1][1], f.writes[1][2], f.writes[1][3])
    /\ IF Len(f.writes) = 1
       THEN /\ Moves(t, "recv", NoTaskFrame, t)
            /\ ledger_call' = [op |-> "apply", opp |-> f.opp, before |-> f.checked,
                               ret |-> TRUE, prev |-> ledger_call.op]
       ELSE /\ Moves(t, "write", [f EXCEPT !.writes = Tail(@)], "none")
            /\ UNCHANGED ledger_call
    /\ UNCHANGED ops
    /\ TaskFrame

\* asyncio.sleep(30) returns and periodic_status_update enters
\* check_and_perform_rebalance
PeriodicWakes ==
    /\ ops < MaxTaskOps
    /\ Runs("periodic")
    /\ task.pc["periodic"] = "sleep"
    /\ ops' = ops + 1
    /\ Moves("periodic", "iterate",
             [fn |-> "check_and_perform_rebalance", ai |-> 1, ei |-> 1, writes |-> <<>>,
              total |-> TotalAcross(balances, RebalanceAssets[1]), start |-> balances],
             "none")
    /\ UNCHANGED <<balances, ledger_call>>
    /\ TaskFrame

\* check_and_perform_rebalance goes on from frame f, or returns and the
\* periodic task goes back to sleep
Proceeds(f) ==
    IF f.ai = 0
    THEN /\ Moves("periodic", "sleep", NoTaskFrame, "periodic")
         /\ ledger_call' = [op |-> "rebalance", opp |-> NoFill, before |-> f.start,
                            ret |-> TRUE, prev |-> ledger_call.op]
    ELSE /\ Moves("periodic", IF f.writes = <<>> THEN "iterate" ELSE "write", f, "none")
         /\ UNCHANGED ledger_call

\* the tests of one iteration of `for ex in exchanges`: writes are the
\* assignments it goes on to make
RebalanceIterate(f, writes) ==
    /\ Runs("periodic")
    /\ task.pc["periodic"] = "iterate"
    /\ Proceeds(IF writes = <<>> THEN NextIteration(f, balances)
                ELSE [f EXCEPT !.writes = writes])
    /\ UNCHANGED <<balances, ops>>
    /\ TaskFrame

\* the next assignment of a transfer
RebalanceWrite(f) ==
    /\ Runs("periodic")
    /\ task.pc["periodic"] = "write"
    /\ balances' = Credit(balances, f.writes[1][1], f.writes[1][2], f.writes[1][3])
    /\ Proceeds(IF Len(f.writes) = 1
                THEN NextIteration(f, Credit(balances, f.writes[1][1], f.writes[1][2],
                                             f.writes[1][3]))
                ELSE [f EXCEPT !.writes = Tail(@)])
    /\ UNCHANGED ops
    /\ TaskFrame

NextTasks ==
    \/ \E t \in Handlers, opp \in TaskOpps : HandlerReceives(t, opp)
    \/ \E t \in Handlers : task.pc[t] = "funds" /\ FundsTest(t, task.frame[t].opp)
    \/ \E t \in Handlers : task.pc[t] = "write" /\ TradeWrite(t, task.frame[t])
    \/ PeriodicWakes
    \/ /\ task.pc["periodic"] = "iterate"
       /\ RebalanceIterate(task.frame["periodic"],
              TransferWrites(balances,
                             RebalanceAssets[task.frame["periodic"].ai],
                             Exchanges[task.frame["periodic"].ei],
                             task.frame["periodic"].total))
    \/ task.pc["periodic"] = "write" /\ RebalanceWrite(task.frame["periodic"])

SpecTasks == InitTasks /\ [][NextTasks]_vars

-----------------------------------------------------------------------------
(* SpecLive: the periodic task next to the two connectors of SpecConn.     *)
(* `await asyncio.sleep(30)` ends in two steps of the event loop: the      *)
(* timer comes due and makes the task ready, then the loop runs the task,  *)
(* which logs, rebalances and sleeps again without an await in between.    *)
(* The connectors take the steps of SpecConn in any order, or none.  The   *)
(* loop is fair to the periodic task: a timer that is due fires, and a     *)
(* ready task is not left waiting for ever, since every handler returns.   *)
(* Nothing is assumed of the network.                                      *)

\* where a connector rests: `async with websockets.connect`, `async for
\* message in ws` and `await asyncio.sleep`, each of which yields to the loop
ConnAwaitPointsSleepBlocks == {"connect", "read"}
ConnAwaitPoints == {"connect", "read", "sleep"}

\* the event loop is free to run another task: every connector is suspended
LoopFree == \A exchange \in ExchangeSet : conn[exchange].pc \in ConnAwaitPoints

\* the timer of `await asyncio.sleep(30)` comes due
TimerFires ==
    /\ LoopFree
    /\ task.pc["periodic"] = "sleep"
    /\ task' = [task EXCEPT !.pc["periodic"] = "ready", !.last = "none"]
    /\ UNCHANGED <<balances, ledger_call, prices, price_history, clock, recv_time,
                   last_check, det_in, det_out, last_sent, conn, ops>>

\* one round of `while True` in periodic_status_update, from the return of
\* the sleep to the next sleep; the frame keeps where the connectors were
PeriodicRuns ==
    /\ LoopFree
    /\ task.pc["periodic"] = "ready"
    /\ balances' = CheckAndPerformRebalance(balances)
    /\ ledger_call' = [op |-> "rebalance", opp |-> NoFill, before |-> balances, ret |-> TRUE,
                       prev |-> ledger_call.op]
    /\ task' = [task EXCEPT !.pc["periodic"] = "sleep", !.last = "periodic",
                            !.frame["periodic"] =
                                [fn |-> "periodic_status_update",
                                 during |-> [exchange \in ExchangeSet |-> conn[exchange].pc]]]
    /\ UNCHANGED <<prices, price_history, clock, recv_time, last_check, det_in, det_out,
                   last_sent, conn, ops>>

NextLive ==
    \/ NextConn
    \/ TimerFires
    \/ PeriodicRuns

\* PeriodicRuns is enabled exactly when the task is ready and the loop is
\* free, so weak fairness of it is that the task is not ready for ever
ReadyTaskRuns == []<>(task.pc["periodic"] # "ready")

SpecLive == Init /\ [][NextLive]_vars /\ WF_vars(TimerFires) /\ ReadyTaskRuns

-----------------------------------------------------------------------------
(* SpecSettle: check_and_perform_rebalance called again and again on a     *)
(* ledger no trade touches, as periodic_status_update does every 30 s      *)
(* while no opportunity is filled.  The ledger starts from any split of    *)
(* each asset over the two exchanges; ops counts the calls up to           *)
(* MaxSettleOps and stays there.                                           *)

MaxSettleOps == 4

\* what okx and bybit hold of an asset at the start
SettleSplits == InitialSplits \cup {<<1, 9>>, <<7, 3>>, <<3, 5>>, <<4, 1>>}

InitSettle ==
    /\ \E split \in [AssetSet -> SettleSplits] :
           balances = [ex \in ExchangeSet |-> [a \in AssetSet |->
                          Int2R(split[a][IF ex = Exchanges[1] THEN 1 ELSE 2])]]
    /\ ledger_call = NoCall
    /\ prices = InitialPrices
    /\ price_history = InitialHistory
    /\ clock = 0
    /\ recv_time = [pair \in PairSet |-> [ex \in ExchangeSet |-> 0]]
    /\ last_check = NoCheck
    /\ det_in = Idle
    /\ det_out = Idle
    /\ last_sent = InitialPrices
    /\ conn = InitialConn
    /\ task = InitialTask
    /\ ops = 0

\* one round of `while True: await asyncio.sleep(30); check_and_perform_rebalance()`
SettleRebalance ==
    /\ balances' = CheckAndPerformRebalance(balances)
    /\ ledger_call' = [op |-> "rebalance", opp |-> NoFill, before |-> balances, ret |-> TRUE,
                       prev |-> ledger_call.op]
    /\ ops' = IF ops < MaxSettleOps THEN ops + 1 ELSE ops
    /\ UNCHANGED <<prices, price_history, clock, recv_time, last_check, det_in, det_out,
                   last_sent, conn, task>>

NextSettle == SettleRebalance

SpecSettle == InitSettle /\ [][NextSettle]_vars

-----------------------------------------------------------------------------
(* SpecTri: find_triangular_opportunity alone, called once on the books of *)
(* three instruments.  BTC is the middle currency, ETH the quote currency  *)
(* and USDT the base currency; every side of every book is empty, thin or  *)
(* deep, in a market where the reverse cycle gains or in one where the     *)
(* forward cycle gains, or in one without spreads whose three prices      *)
(* agree.                                                                  *)

ETH_BTC == <<"E", "T", "H", "/", "B", "T", "C">>
ETH_USDT == <<"E", "T", "H", "/", "U", "S", "D", "T">>
XRP_USDT == <<"X", "R", "P", "/", "U", "S", "D", "T">>

\* a well-formed set, a set whose third instrument is not quote/base, and a
\* set naming an instrument without a book
TriPairs == <<BTC_USDT, ETH_BTC, ETH_USDT>>
TriPairsMisstructured == <<BTC_USDT, ETH_BTC, SOL_USDT>>
TriPairsUnlisted == <<BTC_USDT, ETH_BTC, XRP_USDT>>
TriPairLists == {TriPairs, TriPairsMisstructured, TriPairsUnlisted}

TriStartAmount == Int2R(100)
TriFees == {RZero, R(1, 10)}

\* bid and ask of BTC/USDT, ETH/BTC and ETH/USDT
TriMarkets == {<<<<100, 101>>, <<2, 3>>, <<150, 160>>>>,
               <<<<99, 100>>, <<1, 2>>, <<250, 260>>>>,
               <<<<100, 100>>, <<2, 2>>, <<200, 200>>>>}

\* one side of a book at a price: none, a tenth of a unit, ten units
TriSides(price) == {<<>>, <<Lvl(price, 1, 10)>>, <<Lvl(price, 10, 1)>>}

TriBooksOf(quotes) == {Book(bids, asks) : bids \in TriSides(quotes[1]),
                                          asks \in TriSides(quotes[2])}

SolBook == Book(<<Lvl(200, 10, 1)>>, <<Lvl(210, 10, 1)>>)

\* the books dict handed to the function
TriBooks(mb, qm, qb) ==
    [p \in {BTC_USDT, ETH_BTC, ETH_USDT, SOL_USDT} |->
        IF p = BTC_USDT THEN mb
        ELSE IF p = ETH_BTC THEN qm
        ELSE IF p = ETH_USDT THEN qb
        ELSE SolBook]

\* find_triangular_opportunity(books, pairs, start_amount, fee)
TriCall(books, pairs, start_amount, fee) ==
    /\ DetectFrame
    /\ det_in' = [fn |-> "triangular", books |-> books, pairs |-> pairs,
                  start_amount |-> start_amount, fee |-> fee]
    /\ det_out' = FindTriangularOpportunity(books, pairs, start_amount, fee)

NextTri ==
    ops = 0 /\ \E m \in TriMarkets : \E mb \in TriBooksOf(m[1]),
                    qm \in TriBooksOf(m[2]), qb \in TriBooksOf(m[3]),
                    pairs \in TriPairLists, fee \in TriFees :
                  TriCall(TriBooks(mb, qm, qb), pairs, TriStartAmount, fee)

SpecTri == InitDetect /\ [][NextTri]_vars

-----------------------------------------------------------------------------
(* Properties of the ledger (SpecLedger)                                   *)

\* the buy exchange lacks the quote cost or the sell exchange the base amount
ShortOfFunds(bal, opp) ==
    \/ RLt(bal[Lower(opp.buy_exchange)][QuoteOf(opp.pair)], opp.quote_asset_cost)
    \/ RLt(bal[Lower(opp.sell_exchange)][BaseOf(opp.pair)], opp.base_asset_amount)

\* C1: a call of check_and_update_balances made when the buy exchange holds
\* less quote currency than quote_asset_cost, or the sell exchange less base
\* currency than base_asset_amount, returns False and leaves every balance of
\* every exchange as it was.
C1_ShortFundsChangeNothing ==
    (ledger_call.op = "apply" /\ ShortOfFunds(ledger_call.before, ledger_call.opp))
        => (ledger_call.ret = FALSE /\ balances = ledger_call.before)

\* C1 happens: the buy exchange could pay, the sell exchange could not deliver,
\* and the call returned False
C1_Witness ==
    /\ ledger_call.op = "apply"
    /\ ~RLt(ledger_call.before[Lower(ledger_call.opp.buy_exchange)][QuoteOf(ledger_call.opp.pair)],
            ledger_call.opp.quote_asset_cost)
    /\ RLt(ledger_call.before[Lower(ledger_call.opp.sell_exchange)][BaseOf(ledger_call.opp.pair)],
           ledger_call.opp.base_asset_amount)
    /\ ledger_call.ret = FALSE

\* the four balances C2 names, each moved as C2 says, and no other moved
FourBalancesMoved(before, after, buy_ex, sell_ex, base_asset, quote_asset, opp) ==
    /\ after[buy_ex][quote_asset] = RSub(before[buy_ex][quote_asset], opp.quote_asset_cost)
    /\ after[buy_ex][base_asset] = RAdd(before[buy_ex][base_asset], opp.base_asset_amount)
    /\ after[sell_ex][base_asset] = RSub(before[sell_ex][base_asset], opp.base_asset_amount)
    /\ after[sell_ex][quote_asset] = RAdd(before[sell_ex][quote_asset], opp.quote_asset_revenue)
    /\ \A ex \in ExchangeSet, a \in AssetSet :
           (ex \notin {buy_ex, sell_ex} \/ a \notin {base_asset, quote_asset})
               => after[ex][a] = before[ex][a]

\* C2: a call of check_and_update_balances made when the buy exchange holds at
\* least quote_asset_cost and the sell exchange at least base_asset_amount
\* returns True, lowers the buy exchange's quote balance by the cost, raises
\* its base balance by the amount, lowers the sell exchange's base balance by
\* the amount, raises its quote balance by the revenue, and changes nothing
\* else.
C2_SuccessMovesFourBalances ==
    (ledger_call.op = "apply" /\ ~ShortOfFunds(ledger_call.before, ledger_call.opp))
        => /\ ledger_call.ret = TRUE
           /\ FourBalancesMoved(ledger_call.before, balances,
                  Lower(ledger_call.opp.buy_exchange), Lower(ledger_call.opp.sell_exchange),
                  BaseOf(ledger_call.opp.pair), QuoteOf(ledger_call.opp.pair),
                  ledger_call.opp)

\* C3: whatever calls of check_and_update_balances and
\* check_and_perform_rebalance were made, in whatever order, from non-negative
\* balances, every balance of every asset on every exchange is non-negative.
C3_BalancesNonNegative ==
    \A ex \in ExchangeSet, a \in AssetSet : RGe(balances[ex][a], RZero)

\* C3 happens: after an earlier call, a successful trade takes a balance
\* from above zero to exactly zero
C3_Witness ==
    /\ ops >= 2
    /\ ledger_call.op = "apply"
    /\ ledger_call.ret = TRUE
    /\ \E ex \in ExchangeSet, a \in AssetSet :
           RGt(ledger_call.before[ex][a], RZero) /\ balances[ex][a] = RZero

-----------------------------------------------------------------------------
(* Properties of the handlers (Spec)                                       *)

\* C4: the opportunity handed to check_and_update_balances names two
\* different exchanges: OKX to buy and Bybit to sell when detection said
\* "Buy A, Sell B", Bybit to buy and OKX to sell when it said "Buy B, Sell A".
C4_LedgerGetsTwoVenues ==
    ledger_call.op = "apply"
        => /\ ledger_call.opp.buy_exchange # ledger_call.opp.sell_exchange
           /\ ledger_call.opp.type = "Buy A, Sell B"
                  => (ledger_call.opp.buy_exchange = "OKX"
                      /\ ledger_call.opp.sell_exchange = "Bybit")
           /\ ledger_call.opp.type = "Buy B, Sell A"
                  => (ledger_call.opp.buy_exchange = "Bybit"
                      /\ ledger_call.opp.sell_exchange = "OKX")

\* the returns of check_for_arbitrage taken after find_depth_aware_opportunity ran
MatchingStages == {"no_opportunity", "below_threshold", "paper_trade", "skipped"}

\* C5: check_for_arbitrage never runs the matching on two order books whose
\* receipt times are more than MAX_DATA_STALENESS apart.
C5_StalePairsNeverMatched ==
    last_check.stage \in MatchingStages
        => Abs(last_check.t_okx - last_check.t_bybit) <= MAX_DATA_STALENESS

-----------------------------------------------------------------------------
(* Properties of the matching functions (SpecDetect)                       *)

\* neither direction is crossed at the top of the books: where the two sides
\* of a direction exist, the best ask is not below the best bid
NonCrossed(a, b) ==
    /\ (a.asks # <<>> /\ b.bids # <<>>) => RGe(a.asks[1][1], b.bids[1][1])
    /\ (b.asks # <<>> /\ a.bids # <<>>) => RGe(b.asks[1][1], a.bids[1][1])

\* C6: on price-sorted order books that are not crossed in either direction
\* find_depth_aware_opportunity returns None whatever the fees and the trade
\* size, and check_for_arbitrage returns at its top-of-book test, before any
\* walk of the books.
C6_NonCrossedGivesNothing ==
    /\ (det_in.fn = "find" /\ NonCrossed(det_in.a, det_in.b)) => det_out = NoFill
    /\ (det_in.fn = "check" /\ NonCrossed(det_in.a, det_in.b))
           => det_out.stage \in {"no_cross", "index_error"}

\* C6 happens: four non-empty sides, A's best ask equal to B's best bid
C6_Witness ==
    /\ det_in.fn = "find"
    /\ det_in.a.asks # <<>> /\ det_in.a.bids # <<>>
    /\ det_in.b.asks # <<>> /\ det_in.b.bids # <<>>
    /\ NonCrossed(det_in.a, det_in.b)
    /\ det_in.a.asks[1][1] = det_in.b.bids[1][1]
    /\ det_out = NoFill

\* buying on B's asks and selling on A's bids is feasible and profitable
SecondDirectionPays(order_book_a, order_book_b, trade_size_usdt, fees) ==
    /\ order_book_b.asks # <<>>
    /\ order_book_a.bids # <<>>
    /\ Scenario2(order_book_a, order_book_b, trade_size_usdt, fees).outcome = "opp"

\* C7: whenever buying on B and selling on A is feasible and profitable,
\* find_depth_aware_opportunity returns an opportunity.
C7_SecondDirectionIsReturned ==
    (det_in.fn = "find"
     /\ SecondDirectionPays(det_in.a, det_in.b, det_in.trade_size, det_in.fees))
        => det_out.kind = "opp"

RECURSIVE SideVolume(_, _)
\* the sum of the sizes of the levels of a side from position i on
SideVolume(side, i) ==
    IF i > Len(side) THEN RZero ELSE RAdd(side[i][2], SideVolume(side, i + 1))

\* C8: calculate_execution_details fills no more than the amount asked for and
\* no more than the sizes of the side add up to; get_amount_out spends no more
\* than amount_in (nothing when amount_in is negative) and takes no more base
\* size than the side offers.
C8_NoLiquidityManufactured ==
    /\ (det_in.fn = "fill" /\ det_out.kind = "fill")
           => /\ RLe(det_out.amount_filled, det_in.amount)
              /\ RLe(det_out.amount_filled, SideVolume(det_in.side, 1))
    /\ det_in.fn = "amount_out"
           => /\ RLe(det_out.spent_so_far, det_in.amount) \/ det_out.spent_so_far = RZero
              /\ RLe(det_out.base_used, SideVolume(det_in.side, 1))

\* C8 happens: a walk over two levels that takes all the side offers and
\* still falls short of the amount asked for
C8_Witness ==
    /\ det_in.fn = "fill"
    /\ Len(det_in.side) = 2
    /\ det_out.kind = "fill"
    /\ det_out.amount_filled = SideVolume(det_in.side, 1)
    /\ RLt(det_out.amount_filled, det_in.amount)

\* the opportunity's sell figures are those of sell_details, which is at
\* least 99% of what buy_details filled
SellFiguresAre(opp, buy_details, sell_details, sell_fee) ==
    /\ sell_details.kind = "fill"
    /\ opp.base_asset_amount = sell_details.amount_filled
    /\ opp.sell_price = sell_details.avg_price
    /\ opp.quote_asset_revenue = RMul(sell_details.total_other_asset, RSub(ROne, sell_fee))
    /\ RGe(sell_details.amount_filled, RMul(buy_details.amount_filled, R(99, 100)))

\* the opportunity sells, on sell_bids, the quantity buy_details filled
SellsWhatWasBought(opp, buy_details, sell_bids, sell_fee) ==
    /\ buy_details.kind = "fill"
    /\ opp.buy_price = buy_details.avg_price
    /\ SellFiguresAre(opp, buy_details,
           CalculateExecutionDetails(sell_bids, buy_details.amount_filled), sell_fee)

\* the opportunity is that of buying trade_size_usdt worth on buy_asks and
\* selling what that filled on sell_bids
DirectionSellsItsFill(opp, buy_asks, sell_bids, trade_size_usdt, sell_fee) ==
    SellsWhatWasBought(opp,
        CalculateExecutionDetails(buy_asks, RDiv(trade_size_usdt, buy_asks[1][1])),
        sell_bids, sell_fee)

\* C9: an opportunity find_depth_aware_opportunity returns sells exactly the
\* quantity its buy leg filled, not the quantity asked of the buy leg, and its
\* sell leg filled at least 99% of that quantity.
C9_SellLegFollowsBuyFill ==
    (det_in.fn = "find" /\ det_out.kind = "opp")
        => IF det_out.buy_exchange = "A"
           THEN DirectionSellsItsFill(det_out, det_in.a.asks, det_in.b.bids,
                    det_in.trade_size, det_in.fees.bybit.taker_fee)
           ELSE DirectionSellsItsFill(det_out, det_in.b.asks, det_in.a.bids,
                    det_in.trade_size, det_in.fees.okx.taker_fee)

\* C9 happens: an opportunity buying on B whose buy leg filled less than was
\* asked of it
C9_Witness ==
    /\ det_in.fn = "find"
    /\ det_out.kind = "opp"
    /\ det_out.buy_exchange = "B"
    /\ RLt(det_out.base_asset_amount, RDiv(det_in.trade_size, det_in.b.asks[1][1]))

\* the quantity asked of the buy leg of the direction the opportunity took
RequestedOf(opp, order_book_a, order_book_b, trade_size_usdt) ==
    RDiv(trade_size_usdt,
         IF opp.buy_exchange = "A" THEN order_book_a.asks[1][1] ELSE order_book_b.asks[1][1])

\* the quantity the buy leg filled: what the opportunity paid before fees,
\* over the average price it paid
BoughtBy(opp, buy_fee) ==
    RDiv(RDiv(opp.quote_asset_cost, RAdd(ROne, buy_fee)), opp.buy_price)

\* C10: find_depth_aware_opportunity returns no opportunity whose buy leg
\* filled less than 99% of the quantity asked of it.
C10_ThinBuyLegRejected ==
    (det_in.fn = "find" /\ det_out.kind = "opp")
        => RGe(BoughtBy(det_out, IF det_out.buy_exchange = "A"
                                 THEN det_in.fees.okx.taker_fee
                                 ELSE det_in.fees.bybit.taker_fee),
               RMul(RequestedOf(det_out, det_in.a, det_in.b, det_in.trade_size),
                    R(99, 100)))

\* C11: with one ask level of 5 at 100 on A, one bid level of 5 at 101 on B,
\* a taker fee of 0.1% on both exchanges and a trade size of 100,
\* find_depth_aware_opportunity returns "Buy A, Sell B": 1 bought at 100 and
\* sold at 101, cost 100.1, revenue 100.899, profit 0.799 / 100.1.
C11_WorkedExample ==
    (/\ det_in.fn = "find"
     /\ det_in.a.asks = ExampleAsksA
     /\ det_in.b.bids = ExampleBidsB
     /\ det_in.trade_size = TRADE_SIZE_USDT
     /\ det_in.fees = TRADING_FEES)
        => det_out = [kind |-> "opp",
                      type |-> "Buy A, Sell B",
                      buy_exchange |-> "A", sell_exchange |-> "B",
                      buy_price |-> Int2R(100),
                      sell_price |-> Int2R(101),
                      profit_percentage |-> R(799, 100100),
                      base_asset_amount |-> Int2R(1),
                      quote_asset_cost |-> R(1001, 10),
                      quote_asset_revenue |-> R(100899, 1000)]

\* C11 happens: the call was made with bids on A and asks on B as well, and
\* returned an opportunity
C11_Witness ==
    /\ det_in.fn = "find"
    /\ det_in.a.asks = ExampleAsksA
    /\ det_in.b.bids = ExampleBidsB
    /\ det_in.a.bids # <<>>
    /\ det_in.b.asks # <<>>
    /\ det_out.kind = "opp"

-----------------------------------------------------------------------------
(* Properties of the rebalancing (SpecLedger)                              *)

\* what the two exchanges hold of an asset
TotalOf(bal, a) == RAdd(bal[Exchanges[1]][a], bal[Exchanges[2]][a])

\* the exchange holding the most of an asset, and the other one
OverOf(bal, a) ==
    IF RGe(bal[Exchanges[1]][a], bal[Exchanges[2]][a]) THEN Exchanges[1] ELSE Exchanges[2]
UnderOf(bal, a) ==
    IF RGe(bal[Exchanges[1]][a], bal[Exchanges[2]][a]) THEN Exchanges[2] ELSE Exchanges[1]

\* the asset moved as C12 says: the given fraction of the excess of `over`
\* goes to `under` when the excess is beyond the threshold, nothing otherwise
MovedFractionOfExcess(before, after, a, over, under, excess, ideal) ==
    IF RGt(excess, RMul(ideal, REBALANCE_THRESHOLD_PERCENTAGE))
    THEN /\ after[over][a] = RSub(before[over][a], RMul(excess, REBALANCE_AMOUNT_PERCENTAGE))
         /\ after[under][a] = RAdd(before[under][a], RMul(excess, REBALANCE_AMOUNT_PERCENTAGE))
    ELSE /\ after[over][a] = before[over][a]
         /\ after[under][a] = before[under][a]

\* C12 for one asset, `over` holding the most of it and ideal being the even split
RebalancedAsClaimed(before, after, a, over, under, ideal) ==
    MovedFractionOfExcess(before, after, a, over, under,
                          RSub(before[over][a], ideal), ideal)

\* C12: one call of check_and_perform_rebalance moves, for each asset whose
\* holdings lie more than 20% off the even split, exactly 50% of the excess of
\* the exchange above the split to the other exchange, and moves nothing of an
\* asset whose holdings lie within 20% of it.
C12_MovesHalfTheExcess ==
    ledger_call.op = "rebalance"
        => \A a \in AssetSet :
               RebalancedAsClaimed(ledger_call.before, balances, a,
                   OverOf(ledger_call.before, a), UnderOf(ledger_call.before, a),
                   RMul(TotalOf(ledger_call.before, a), R(1, 2)))

\* how far the first exchange's holding of an asset lies from the even split
OffSplit(bal, a) == RAbs(RSub(bal[Exchanges[1]][a], RMul(TotalOf(bal, a), R(1, 2))))

\* the second of two successive calls of check_and_perform_rebalance
SecondRebalance == ledger_call.op = "rebalance" /\ ledger_call.prev = "rebalance"

-----------------------------------------------------------------------------
(* Properties of the connectors (SpecConn)                                 *)

\* the subscribe message of exchange's present connection named every
\* configured pair
SubscribedToAll(exchange) ==
    \A i \in 1..Len(TRADING_PAIRS) :
        \E j \in 1..Len(conn[exchange].subscribed) :
            conn[exchange].subscribed[j] = WireSymbol(exchange, TRADING_PAIRS[i])

JustReceived(exchange) == conn[exchange].last.at = ops

\* message is text that is not JSON and not the exchange's text ping, or an
\* order-book message or ping with a part missing
Malformed(exchange, message) ==
    IF ~message.json THEN ~(exchange = "okx" /\ message.text = "ping")
    ELSE IF exchange = "okx"
    THEN "arg" \in DOMAIN message.obj /\ ReadOkx(message.obj).exc # "none"
    ELSE \/ "topic" \in DOMAIN message.obj /\ ReadBybit(message.obj).exc # "none"
         \/ /\ "op" \in DOMAIN message.obj
            /\ message.obj.op = "ping"
            /\ "req_id" \notin DOMAIN message.obj

\* C15: a malformed message is dropped inside the read loop: nothing is
\* raised out of the loop, the connector goes on reading the same
\* connection with no wait, and the cache is as it was.
C15_MalformedIsDiscarded ==
    \A exchange \in ExchangeSet :
        (JustReceived(exchange) /\ Malformed(exchange, conn[exchange].last.message)) =>
            /\ conn[exchange].last.raised = "none"
            /\ conn[exchange].pc = "read"
            /\ prices = conn[exchange].last.cache

\* the pair an order-book message of exchange is about
PairCarried(exchange, message) ==
    PairOfMessage(exchange, ReadMessage(exchange, message.obj).symbol)

\* message is a complete order-book message of exchange for a configured pair
CarriesBook(exchange, message) ==
    /\ message.json
    /\ ReadMessage(exchange, message.obj).exc = "none"
    /\ PairCarried(exchange, message) \in PairSet

\* C16: for an order-book message on a subscribed instrument, from OKX or
\* from Bybit, the connector calls the callback with the venue and the
\* message, the call returns, and the cache then holds for that venue and
\* instrument the book the exchange published.
C16_BookReachesCache ==
    \A exchange \in ExchangeSet :
        (JustReceived(exchange) /\ CarriesBook(exchange, conn[exchange].last.message)) =>
            /\ conn[exchange].last.args = <<exchange, conn[exchange].last.message.obj>>
            /\ conn[exchange].last.raised = "none"
            /\ prices[PairCarried(exchange, conn[exchange].last.message)][exchange]
                   = last_sent[PairCarried(exchange, conn[exchange].last.message)][exchange]

\* message is what exchange's connector takes for a keep-alive ping
IsPing(exchange, message) ==
    IF exchange = "okx" THEN ~message.json /\ message.text = "ping"
    ELSE message.json /\ "op" \in DOMAIN message.obj /\ message.obj.op = "ping"

\* frame is exchange's pong
IsPong(exchange, frame) ==
    /\ frame # NoFrame
    /\ IF exchange = "okx" THEN ~frame.json /\ frame.text = "pong"
       ELSE frame.json /\ frame.obj.op = "pong"

\* C17: a ping is answered with a pong on the connection it came on, which
\* stays open for the next message; the callback is not called for it and
\* the cache is as it was.
C17_PingAnsweredInBand ==
    \A exchange \in ExchangeSet :
        (JustReceived(exchange) /\ IsPing(exchange, conn[exchange].last.message)) =>
            /\ IsPong(exchange, conn[exchange].last.sent)
            /\ conn[exchange].pc = "read"
            /\ conn[exchange].last.args = <<>>
            /\ prices = conn[exchange].last.cache

-----------------------------------------------------------------------------
(* Properties of the price cache (Spec)                                    *)

\* C18: after any sequence of updates the cache holds, for every pair and
\* venue, exactly the book of the latest update made for that pair and
\* venue, whole, and None where none was made; so an update for one key
\* leaves every other key as it was.
C18_LatestValueWins ==
    \A pair \in PairSet : \A exchange \in ExchangeSet :
        prices[pair][exchange] = last_sent[pair][exchange]

\* C18 happens: three updates with a mid price went to the two keys of one
\* pair, so one key was replaced while the other was populated
C18_Witness ==
    \E pair \in PairSet :
        /\ prices[pair]["okx"] # NoBook
        /\ prices[pair]["bybit"] # NoBook
        /\ Len(price_history[pair]) >= 3

-----------------------------------------------------------------------------
(* Properties of check_for_arbitrage (Spec, SpecDetect)                    *)

\* a venue has reported no book for pair
NotReady(pair) == prices[pair]["okx"] = NoBook \/ prices[pair]["bybit"] = NoBook

\* C19: when check_for_arbitrage runs for a pair for which a venue has
\* reported no book, it returns at the readiness test: no matching is done,
\* no error is raised, no ledger call is made and the balances stay.
C19_NotReadyDoesNothing ==
    (last_check.stage # "none" /\ NotReady(last_check.pair)) =>
        /\ last_check.stage = "not_ready"
        /\ last_check.opp = NoFill
        /\ last_check.call = NoCall
        /\ last_check.after = last_check.before

\* C19 happens: a check ran for a pair only one venue has reported
C19_Witness ==
    /\ last_check.stage = "not_ready"
    /\ prices[last_check.pair]["okx"] # prices[last_check.pair]["bybit"]
    /\ NotReady(last_check.pair)

\* a book with no bids or no asks
HasEmptySide(order_book) == order_book.bids = <<>> \/ order_book.asks = <<>>

\* C20: when the cached book of either venue has an empty side,
\* check_for_arbitrage finds no opportunity, makes no ledger call and leaves
\* every balance as it was.
C20_IncompleteNeverMatched ==
    (det_in.fn = "check" /\ (HasEmptySide(det_in.a) \/ HasEmptySide(det_in.b))) =>
        /\ det_out.opp = NoFill
        /\ det_out.call = NoCall
        /\ det_out.balances = balances

\* C20 happens: OKX has no bids and Bybit no asks while the OKX ask is below
\* the Bybit bid, so only the empty sides stand between the books and a match
C20_Witness ==
    /\ det_in.fn = "check"
    /\ det_in.a.bids = <<>> /\ det_in.b.asks = <<>>
    /\ det_in.a.asks # <<>> /\ det_in.b.bids # <<>>
    /\ RLt(det_in.a.asks[1][1], det_in.b.bids[1][1])
    /\ det_out.stage = "index_error"

-----------------------------------------------------------------------------
(* Properties of the volatility window and the threshold (SpecWindow,      *)
(* SpecDetect)                                                             *)

\* the last w elements of s, in order
LastSamples(s, w) == SubSeq(s, IF Len(s) > w THEN Len(s) - w + 1 ELSE 1, Len(s))

\* (best bid + best ask) / 2 of a book with both sides
MidOf(order_book) ==
    R(order_book.bids[1][1][1] * order_book.asks[1][1][2]
          + order_book.asks[1][1][1] * order_book.bids[1][1][2],
      2 * order_book.bids[1][1][2] * order_book.asks[1][1][2])

\* the last call was update_price for a configured pair
UpdatedPair == det_in.fn = "update_price" /\ det_in.pair \in PairSet

\* no history is longer than the window, and calculate_volatility on fewer
\* than two samples returns 0
WindowBoundedAndQuiet ==
    /\ \A pair \in PairSet : Len(price_history[pair]) <= VOLATILITY_LOOKBACK_PERIOD
    /\ (det_in.fn = "calculate_volatility" /\ det_in.samples < 2) => det_out.squared = RZero

\* C21 as stated: no history is longer than W; every update appends one
\* sample, the mid price, behind the samples already held, the oldest leaving
\* when there were W; calculate_volatility on fewer than two samples is 0.
C21_MidAppendedOnEveryUpdate ==
    /\ WindowBoundedAndQuiet
    /\ UpdatedPair =>
          /\ Len(price_history[det_in.pair])
                 = Len(LastSamples(Append(det_in.before, RZero), VOLATILITY_LOOKBACK_PERIOD))
          /\ ~HasEmptySide(det_in.order_book_data) =>
                 price_history[det_in.pair]
                     = LastSamples(Append(det_in.before, MidOf(det_in.order_book_data)),
                                   VOLATILITY_LOOKBACK_PERIOD)

\* C21, amended: no history is longer than W; an update whose book has both
\* sides appends its mid price behind the samples already held, the oldest
\* leaving when there were W; an update whose book lacks a side leaves the
\* history as it was; calculate_volatility on fewer than two samples is 0.
C21_MidAppendedOnCompleteUpdate ==
    /\ WindowBoundedAndQuiet
    /\ UpdatedPair =>
          price_history[det_in.pair]
              = IF HasEmptySide(det_in.order_book_data) THEN det_in.before
                ELSE LastSamples(Append(det_in.before, MidOf(det_in.order_book_data)),
                                 VOLATILITY_LOOKBACK_PERIOD)

\* C21 happens: an update with a mid price arrived at a full history
C21_Witness ==
    /\ UpdatedPair
    /\ ~HasEmptySide(det_in.order_book_data)
    /\ Len(det_in.before) = VOLATILITY_LOOKBACK_PERIOD
    /\ price_history[det_in.pair] # det_in.before

\* x < y for naturals of any size
BigLt(x, y) == ~BigLe(y, x)

\* profit < base + multiplier * sqrt(v2), for multiplier >= 0 and v2 >= 0:
\* either profit < base, or (profit - base)^2 < multiplier^2 * v2
BelowBasePlus(profit, base, multiplier, v2) ==
    \/ RLt(profit, base)
    \/ LET x == RSub(profit, base)
           sq(n) == BigMul(BigFromNat(n), BigFromNat(n))
       IN  BigLt(BigMul(BigMul(sq(x[1]), BigFromNat(v2[2])), sq(multiplier[2])),
                 BigMul(BigMul(sq(multiplier[1]), BigFromNat(v2[1])), sq(x[2])))

\* profit < max(base, base + multiplier * sqrt(v2))
BelowThreshold(profit, v2) ==
    \/ RLt(profit, R(5, 10000))
    \/ BelowBasePlus(profit, R(5, 10000), Int2R(2), v2)

\* C22: the ledger is called for an opportunity only if its profit fraction
\* is at least max(base, base + volatility * multiplier), with base 0.0005,
\* multiplier 2 and the volatility of the pair's history at the check; so
\* never for one below the base.
C22_ThresholdGate ==
    (det_in.fn = "check" /\ det_out.call # NoCall) =>
        /\ RGe(det_out.opp.profit_percentage, R(5, 10000))
        /\ ~BelowThreshold(det_out.opp.profit_percentage, VolatilitySquared(det_in.history))

\* C22 happens: the ledger was called for an opportunity while the
\* volatility was positive and the threshold above the base
C22_Witness ==
    /\ det_in.fn = "check"
    /\ det_out.call # NoCall
    /\ RGt(VolatilitySquared(det_in.history), RZero)

-----------------------------------------------------------------------------
(* Properties of the tasks (SpecTasks)                                     *)

\* the tasks that are inside a call, not waiting for a message or asleep
InsideACall == {t \in Tasks : task.pc[t] \notin {"recv", "sleep"}}

\* C23: the ledger calls of the three tasks are atomic with respect to each
\* other.  At most one task is ever inside a call, so none sees the writes
\* of another's trade or transfer half done; the first debit of an apply
\* meets the balances its funds test saw; and a call that returns leaves
\* exactly what the whole call makes of the balances it started from.
C23_LedgerCallsAtomic ==
    /\ Cardinality(InsideACall) <= 1
    /\ \A t \in Tasks \ {"periodic"} :
           (task.pc[t] = "write" /\ Len(task.frame[t].writes) = 4) =>
               balances = task.frame[t].checked
    /\ (task.last \in Tasks \ {"periodic"} /\ ledger_call.ret) =>
           balances = CheckAndUpdateBalances(ledger_call.before, ledger_call.opp)[2]
    /\ task.last = "periodic" =>
           balances = CheckAndPerformRebalance(ledger_call.before)

\* C23 happens: a rebalance that moved funds has just returned, after an
\* apply by a connector task
C23_Witness ==
    /\ task.last = "periodic"
    /\ ledger_call.prev = "apply"
    /\ balances # ledger_call.before

-----------------------------------------------------------------------------
(* Properties of the handler under hostile content (SpecConn)              *)

\* C24: for a well-framed order-book message, whatever its levels hold,
\* handle_update returns normally: the callback was called with the venue
\* and the message, no exception left the read loop, and the connector goes
\* on reading the same connection.
C24_HandlerNeverRaises ==
    (JustReceived("okx") /\ CarriesBook("okx", conn["okx"].last.message)) =>
        /\ conn["okx"].last.args = <<"okx", conn["okx"].last.message.obj>>
        /\ conn["okx"].last.raised = "none"
        /\ conn["okx"].pc = "read"

-----------------------------------------------------------------------------
(* Properties of triangular matching (SpecTri)                             *)

TriCalled == det_in.fn = "triangular"

\* the first level of a side alone absorbs the amount: quote spent on asks,
\* base sold into bids
FitsBuy(side, amount) == side # <<>> /\ RLe(amount, RMul(side[1][1], side[1][2]))
FitsSell(side, amount) == side # <<>> /\ RLe(amount, side[1][2])

\* what the forward walk yields without fees when depth is not binding
ForwardA(bk, start) == RDiv(start, bk[BTC_USDT].asks[1][1])
ForwardB(bk, start) == RDiv(ForwardA(bk, start), bk[ETH_BTC].asks[1][1])
ForwardFinal(bk, start) == RMul(ForwardB(bk, start), bk[ETH_USDT].bids[1][1])

ForwardNotBinding(bk, start) ==
    /\ FitsBuy(bk[BTC_USDT].asks, start)
    /\ FitsBuy(bk[ETH_BTC].asks, ForwardA(bk, start))
    /\ FitsSell(bk[ETH_USDT].bids, ForwardB(bk, start))

\* what the reverse walk yields without fees when depth is not binding
ReverseB(bk, start) == RDiv(start, bk[ETH_USDT].asks[1][1])
ReverseA(bk, start) == RMul(ReverseB(bk, start), bk[ETH_BTC].bids[1][1])
ReverseFinal(bk, start) == RMul(ReverseA(bk, start), bk[BTC_USDT].bids[1][1])

ReverseNotBinding(bk, start) ==
    /\ FitsBuy(bk[ETH_USDT].asks, start)
    /\ FitsSell(bk[ETH_BTC].bids, ReverseB(bk, start))
    /\ FitsSell(bk[BTC_USDT].bids, ReverseA(bk, start))

\* the forward walk yields nothing: one of its three sides is empty
ForwardEmpty(bk) ==
    bk[BTC_USDT].asks = <<>> \/ bk[ETH_BTC].asks = <<>> \/ bk[ETH_USDT].bids = <<>>

KeepCubed(fee) == RMul(RSub(ROne, fee), RMul(RSub(ROne, fee), RSub(ROne, fee)))

ThriceCharged(zero_fee_final, start, fee) ==
    RSub(RDiv(RMul(zero_fee_final, KeepCubed(fee)), start), ROne)

ForwardPath == PathName(USDT, <<"B", "T", "C">>, <<"E", "T", "H">>)
ReversePath == PathName(USDT, <<"E", "T", "H">>, <<"B", "T", "C">>)

\* C25: on a well-formed set, in each direction whose depth is not binding
\* the returned profit is the zero-fee result of the walk times (1 - fee)^3,
\* over the start amount, minus 1: each leg's fee-reduced output is the
\* next leg's input.  The reverse direction is the one evaluated when the
\* forward walk yields nothing.
C25_FeeChargedThreeTimes ==
    (TriCalled /\ det_in.pairs = TriPairs) =>
        /\ ForwardNotBinding(det_in.books, det_in.start_amount) =>
              /\ det_out.kind = "tri"
              /\ det_out.path = ForwardPath
              /\ det_out.profit_pct =
                    ThriceCharged(ForwardFinal(det_in.books, det_in.start_amount),
                                  det_in.start_amount, det_in.fee)
        /\ (ForwardEmpty(det_in.books)
              /\ ReverseNotBinding(det_in.books, det_in.start_amount)) =>
              /\ det_out.kind = "tri"
              /\ det_out.path = ReversePath
              /\ det_out.profit_pct =
                    ThriceCharged(ReverseFinal(det_in.books, det_in.start_amount),
                                  det_in.start_amount, det_in.fee)

\* a forward walk within depth, charged a positive fee three times
C25_Witness ==
    /\ TriCalled /\ det_in.pairs = TriPairs
    /\ RGt(det_in.fee, RZero)
    /\ ForwardNotBinding(det_in.books, det_in.start_amount)
    /\ det_out.kind = "tri"
    /\ det_out.profit_pct =
          ThriceCharged(ForwardFinal(det_in.books, det_in.start_amount),
                        det_in.start_amount, det_in.fee)

\* a reverse walk within depth, charged a positive fee three times
C25_WitnessReverse ==
    /\ TriCalled /\ det_in.pairs = TriPairs
    /\ RGt(det_in.fee, RZero)
    /\ ForwardEmpty(det_in.books)
    /\ ReverseNotBinding(det_in.books, det_in.start_amount)
    /\ det_out.kind = "tri" /\ det_out.path = ReversePath

\* each cycle evaluated on its own
ForwardAlone ==
    TriPath(det_in.books[BTC_USDT].asks, det_in.books[ETH_BTC].asks, TRUE,
            det_in.books[ETH_USDT].bids, det_in.fee, ForwardPath,
            det_in.start_amount, NoFill)
ReverseAlone ==
    TriPath(det_in.books[ETH_USDT].asks, det_in.books[ETH_BTC].bids, FALSE,
            det_in.books[BTC_USDT].bids, det_in.fee, ReversePath,
            det_in.start_amount, NoFill)

Profitable(found) == found.kind = "tri" /\ RGt(found.profit_pct, RZero)

\* C26: on a well-formed set, whenever the forward cycle is not profitable
\* and the reverse cycle is, the function returns the reverse cycle's path
\* and its positive profit fraction.
C26_ReverseCycleReturned ==
    (TriCalled /\ det_in.pairs = TriPairs
        /\ ~Profitable(ForwardAlone) /\ Profitable(ReverseAlone)) =>
        det_out = ReverseAlone

\* pairs is <<middle/base, quote/middle, quote/base>> over three currencies
WellStructured(pairs) ==
    /\ QuoteOf(pairs[2]) = BaseOf(pairs[1])
    /\ BaseOf(pairs[3]) = BaseOf(pairs[2])
    /\ QuoteOf(pairs[3]) = QuoteOf(pairs[1])
    /\ Cardinality({BaseOf(pairs[1]), BaseOf(pairs[2]), QuoteOf(pairs[1])}) = 3

\* C27: for a set of three instruments that do not share exactly three
\* currencies in the required structure the function never returns a
\* profit figure.
C27_MisstructuredSetRejected ==
    (TriCalled /\ ~WellStructured(det_in.pairs)) => det_out.kind # "tri"

-----------------------------------------------------------------------------
(* Properties of the paper-trade records (SpecDetect)                      *)

\* check_for_arbitrage ran and the detector returned an opportunity
OpportunityReturned == det_in.fn = "check" /\ det_out.opp.kind = "opp"

\* C28: every opportunity the detector returns leaves exactly one record,
\* and the record of one that is not filled carries its profit fraction and
\* says it was rejected.
C28_OneRecordPerOpportunity ==
    OpportunityReturned =>
        /\ Len(det_out.records) = 1
        /\ det_out.records[1].profit_percentage = det_out.opp.profit_percentage
        /\ det_out.stage # "paper_trade" => det_out.records[1].word = "SKIPPED"

\* an opportunity below the threshold in force, and the records it left
BelowThresholdReturned == OpportunityReturned /\ det_out.stage = "below_threshold"

\* an opportunity refused by the ledger leaves one SKIPPED record
SkippedRecorded ==
    (OpportunityReturned /\ det_out.stage = "skipped") =>
        /\ Len(det_out.records) = 1
        /\ det_out.records[1].word = "SKIPPED"
        /\ det_out.records[1].profit_percentage = det_out.opp.profit_percentage

-----------------------------------------------------------------------------
(* Properties of the periodic task (SpecLive)                              *)

\* check_and_perform_rebalance returns and the periodic task sleeps again
RebalanceCompletes == task.pc["periodic"] = "ready" /\ task'.pc["periodic"] = "sleep"

\* C29: whatever the connectors do, and whether or not they do anything,
\* the periodic task completes a rebalance again and again; and a rebalance
\* is only ever run by the periodic task coming out of its sleep, never by
\* a step of a connector or its handler.
C29_RebalanceInfinitelyOften ==
    /\ []<><<RebalanceCompletes>>_vars
    /\ [][ledger_call'.op = "rebalance" /\ ledger_call' # ledger_call
            => RebalanceCompletes]_vars

\* the periodic task has run a second round while OKX sat in a backoff and
\* Bybit was disconnected
C29_Witness ==
    /\ ledger_call.op = "rebalance" /\ ledger_call.prev = "rebalance"
    /\ task.frame["periodic"].fn = "periodic_status_update"
    /\ task.frame["periodic"].during["okx"] = "sleep"
    /\ task.frame["periodic"].during["bybit"] = "connect"
    /\ conn["okx"].slept > 0

-----------------------------------------------------------------------------
(* Properties of the two connectors side by side (SpecConn)                *)

\* exchange's connector is disconnected or sits in a backoff
Down(exchange) == conn[exchange].pc \in {"connect", "sleep"}

\* C30: while one connector is disconnected or in its backoff, an
\* order-book message the other receives is handled as ever: the cache
\* takes the book, detection runs on the pair and the connector goes on
\* reading.
C30_OtherKeepsWorking ==
    \A exchange \in ExchangeSet : \A other \in ExchangeSet \ {exchange} :
        (Down(exchange) /\ JustReceived(other)
            /\ CarriesBook(other, conn[other].last.message)) =>
            /\ prices[PairCarried(other, conn[other].last.message)][other]
                   = last_sent[PairCarried(other, conn[other].last.message)][other]
            /\ conn[other].last.raised = "none"
            /\ conn[other].pc = "read"

\* a connector has taken a step of its own while the other sat in a backoff:
\* it received a message, or it woke up, or it connected
ActedDuringBackoff(exchange, other) ==
    /\ conn[exchange].pc = "sleep"
    /\ conn[other].connection >= 1
    /\ JustReceived(other)

\* OKX stored a book and went on reading while Bybit sat in a backoff
OkxWorkedDuringBackoff ==
    /\ ActedDuringBackoff("bybit", "okx")
    /\ CarriesBook("okx", conn["okx"].last.message)
    /\ conn["okx"].last.raised = "none"
    /\ conn["okx"].pc = "read"
    /\ prices[PairCarried("okx", conn["okx"].last.message)]["okx"]
           = last_sent[PairCarried("okx", conn["okx"].last.message)]["okx"]

\* Bybit received a message while OKX sat in a backoff
BybitReceivedDuringBackoff == ActedDuringBackoff("okx", "bybit")

-----------------------------------------------------------------------------
(* Properties of handle_update on messages it has no use for (Spec)        *)

\* handle_update runs on an order book of an instrument that is not
\* configured, or is called for a venue it does not know
UnrelatedArrives ==
    \/ \E exchange \in ExchangeSet : StrangerSends(exchange)
    \/ UnknownVenueSends

\* C31: a message for an instrument outside the configured set, or from an
\* unknown venue, is discarded: the cache, the mid-price history and every
\* balance stay as they were, no check_for_arbitrage runs and no ledger
\* call is made.
C31_UnrelatedIsDiscarded ==
    [][UnrelatedArrives =>
          UNCHANGED <<prices, price_history, balances, ledger_call, last_check,
                      recv_time>>]_vars

\* C31 happens: of the handler runs made, one stored the first book of a
\* configured pair and all the others were for unrelated messages
C31_Witness ==
    /\ ops = MaxOps
    /\ \E pair \in PairSet, exchange \in ExchangeSet :
           /\ prices[pair][exchange] # NoBook
           /\ Len(price_history[pair]) = 1
           /\ \A p \in PairSet, ex \in ExchangeSet :
                  <<p, ex>> # <<pair, exchange>> => prices[p][ex] = NoBook
    /\ ledger_call = NoCall
    /\ clock = 0

-----------------------------------------------------------------------------
(* Properties of the two-venue figures (SpecDetect)                        *)

\* find_depth_aware_opportunity was called and returned an opportunity
Found == det_in.fn = "find" /\ det_out.kind = "opp"

\* the taker fees of the venue bought on and of the venue sold on
BuyFee == IF det_out.buy_exchange = "A" THEN det_in.fees.okx.taker_fee
          ELSE det_in.fees.bybit.taker_fee
SellFee == IF det_out.sell_exchange = "B" THEN det_in.fees.bybit.taker_fee
           ELSE det_in.fees.okx.taker_fee

\* the sides the returned direction bought on and sold on
BoughtOn == IF det_out.buy_exchange = "A" THEN det_in.a.asks ELSE det_in.b.asks
SoldOn == IF det_out.sell_exchange = "B" THEN det_in.b.bids ELSE det_in.a.bids

\* the quote amount of the buy fill before fees, out of the returned cost
PreFeeCost == RDiv(det_out.quote_asset_cost, RAdd(ROne, BuyFee))

\* C32: the quote amount of the buy fill before fees, which the ledger is
\* debited with the fee on top, never exceeds the trade size the detector
\* was called with.
C32_BuyLegWithinTradeSize ==
    Found => RLe(PreFeeCost, det_in.trade_size)

\* the fills of the returned direction, walked again from the books
BuyFill ==
    CalculateExecutionDetails(BoughtOn, RDiv(det_in.trade_size, BoughtOn[1][1]))
SellFill == CalculateExecutionDetails(SoldOn, BuyFill.amount_filled)

\* C33: in either direction the cost is the buy fill's quote amount times
\* (1 + the taker fee of the venue bought on), the revenue the sell fill's
\* quote amount times (1 - the taker fee of the venue sold on), where A is
\* OKX and B is Bybit, and the profit fraction is revenue / cost - 1 of
\* those two figures.
C33_FeesFollowTheVenues ==
    Found =>
        /\ det_out.quote_asset_cost = RMul(BuyFill.total_other_asset, RAdd(ROne, BuyFee))
        /\ det_out.quote_asset_revenue
               = RMul(SellFill.total_other_asset, RSub(ROne, SellFee))
        /\ det_out.profit_percentage
               = RSub(RDiv(det_out.quote_asset_revenue, det_out.quote_asset_cost), ROne)

\* C33 happens: the direction that buys on Bybit and sells on OKX is
\* returned under fees that differ between the venues
C33_Witness ==
    /\ Found
    /\ det_out.buy_exchange = "B" /\ det_out.sell_exchange = "A"
    /\ BuyFee # SellFee

-----------------------------------------------------------------------------
(* Properties of the triangular legs on a market without spreads (SpecTri) *)

\* every instrument has both sides, its best bid equals its best ask, and
\* price(ETH/USDT) = price(ETH/BTC) * price(BTC/USDT)
EvenMarket(bk) ==
    /\ \A p \in {BTC_USDT, ETH_BTC, ETH_USDT} :
           /\ bk[p].bids # <<>> /\ bk[p].asks # <<>>
           /\ bk[p].bids[1][1] = bk[p].asks[1][1]
    /\ bk[ETH_USDT].asks[1][1] = RMul(bk[ETH_BTC].asks[1][1], bk[BTC_USDT].asks[1][1])

\* the profit of a cycle that only loses its three fees
FeesOnly(fee) == RSub(KeepCubed(fee), ROne)

\* Path 2 of the function on the books of the call
ReverseLegs ==
    TriPath2(det_in.books[BTC_USDT], det_in.books[ETH_BTC], det_in.books[ETH_USDT],
             USDT, <<"B", "T", "C">>, <<"E", "T", "H">>, det_in.start_amount, det_in.fee)

\* C34: on a market without spreads and with consistent prices, a cycle
\* whose sides are deep enough comes back to the start currency with
\* start * (1 - fee)^3, in the forward direction the function returns and
\* in the reverse direction of its Path 2 alike: the profit is
\* (1 - fee)^3 - 1, exactly 0 at zero fee.  Sides the cycle does not use
\* may be thin.
C34_EvenMarketLosesOnlyFees ==
    (TriCalled /\ det_in.pairs = TriPairs /\ EvenMarket(det_in.books)) =>
        /\ ForwardNotBinding(det_in.books, det_in.start_amount) =>
              det_out = [kind |-> "tri", path |-> ForwardPath,
                         profit_pct |-> FeesOnly(det_in.fee)]
        /\ ReverseNotBinding(det_in.books, det_in.start_amount) =>
              ReverseLegs = [kind |-> "tri", path |-> ReversePath,
                             profit_pct |-> FeesOnly(det_in.fee)]

\* C34 happens: at zero fee both directions are within depth and the
\* function returns a profit of exactly 0
C34_Witness ==
    /\ TriCalled /\ det_in.pairs = TriPairs /\ EvenMarket(det_in.books)
    /\ ForwardNotBinding(det_in.books, det_in.start_amount)
    /\ ReverseNotBinding(det_in.books, det_in.start_amount)
    /\ det_in.fee = RZero
    /\ det_out.kind = "tri" /\ det_out.profit_pct = RZero
    /\ ReverseLegs.profit_pct = RZero

-----------------------------------------------------------------------------
(* Properties of the matching an update sets off (Spec, SpecConn)          *)

\* what one run of check_for_arbitrage(pair) on the cache and the history of
\* the next state, and on the ledger of this one, leaves in last_check
OneCheckOnNewCache(pair) ==
    LET chk == CheckForArbitrage(prices', price_history', balances, pair)
    IN  /\ last_check' = [stage |-> chk.stage, pair |-> pair, opp |-> chk.opp,
                          t_okx |-> recv_time'[pair]["okx"],
                          t_bybit |-> recv_time'[pair]["bybit"],
                          call |-> chk.call, before |-> balances, after |-> chk.balances,
                          history |-> price_history'[pair], records |-> chk.records]
        /\ balances' = chk.balances
        /\ \/ chk.call = NoCall /\ ledger_call' = ledger_call
           \/ chk.call # NoCall /\ ledger_call' = [chk.call EXCEPT !.prev = ledger_call.op]

\* the update is in the cache, once
StoredOnce(exchange, pair, order_book) ==
    /\ prices' = [prices EXCEPT ![pair][exchange] = order_book]
    /\ price_history' =
           IF order_book.bids # <<>> /\ order_book.asks # <<>>
           THEN [price_history EXCEPT ![pair] = DequeAppend(@, MidPrice(order_book))]
           ELSE price_history

\* C35: a venue's order book for a configured pair is put in the cache once,
\* and in the same run of handle_update check_for_arbitrage runs once for
\* that pair on the cache that holds it; nothing is left for a later run.
C35_OneCheckOnUpdatedCache ==
    [][\A exchange \in ExchangeSet, pair \in PairSet, order_book \in LiveBooks, dt \in TimeGaps :
           VenueSends(exchange, pair, order_book, dt) =>
               /\ StoredOnce(exchange, pair, order_book)
               /\ recv_time' = [recv_time EXCEPT ![pair][exchange] = clock']
               /\ OneCheckOnNewCache(pair)]_vars

\* C35 happens: the last update completed the pair and the check that ran
\* on it found an opportunity and took it to the ledger
C35_Witness ==
    /\ ops > 1
    /\ last_check.pair \in PairSet
    /\ last_check.stage = "skipped"
    /\ last_check.history = price_history[last_check.pair]
    /\ \E exchange \in ExchangeSet :
           /\ recv_time[last_check.pair][exchange] = clock
           /\ prices[last_check.pair][exchange] = last_sent[last_check.pair][exchange]

\* in the connector the same holds inside one iteration of `async for`: the
\* message whose callback returned is in the cache, its check has run, and
\* the connector is back at `async for` with nothing kept aside
C35_WithinOneIteration ==
    [][\A exchange \in ExchangeSet, pair \in PairSet, order_book \in ConnBooks :
           (VenuePublishes(exchange, pair, order_book)
               /\ conn'[exchange].last.raised = "none"
               /\ Len(conn'[exchange].last.args) = 2) =>
               /\ StoredOnce(exchange, pair, order_book)
               /\ OneCheckOnNewCache(pair)
               /\ conn'[exchange].pc = "read"
               /\ conn'[exchange].last.at = ops']_vars

-----------------------------------------------------------------------------
(* Properties of what the ledger holds in total (SpecLedger)               *)

\* C36: a call of check_and_perform_rebalance leaves, for every asset, the
\* sum of the two exchanges' balances as it found it, and changes no balance
\* of an asset whose sum is zero.
C36_RebalanceConservesTotals ==
    ledger_call.op = "rebalance"
        => \A a \in AssetSet :
               /\ TotalOf(balances, a) = TotalOf(ledger_call.before, a)
               /\ TotalOf(ledger_call.before, a) = RZero
                      => \A ex \in ExchangeSet : balances[ex][a] = ledger_call.before[ex][a]

\* C36 happens: a rebalance moved one asset and met another held nowhere
C36_Witness ==
    /\ ledger_call.op = "rebalance"
    /\ \E a \in AssetSet : balances[Exchanges[1]][a] # ledger_call.before[Exchanges[1]][a]
    /\ \E a \in AssetSet : TotalOf(ledger_call.before, a) = RZero

\* an apply that returned True
ApplySucceeded == ledger_call.op = "apply" /\ ledger_call.ret

\* what the opportunity of the last apply gains: revenue - cost
GainOf(opp) == RSub(opp.quote_asset_revenue, opp.quote_asset_cost)

\* C37: an apply that returns True leaves the two exchanges' sum of the base
\* asset as it was and raises their sum of the quote asset by exactly
\* revenue - cost, touching no other asset; with revenue above cost, as in
\* every opportunity the detector returns, the sum of the quote asset rises,
\* and no apply and no rebalance ever lowers it.
C37_ApplyAddsTheGain ==
    /\ ApplySucceeded =>
           /\ TotalOf(balances, BaseOf(ledger_call.opp.pair)) =
                  TotalOf(ledger_call.before, BaseOf(ledger_call.opp.pair))
           /\ TotalOf(balances, QuoteOf(ledger_call.opp.pair)) =
                  RAdd(TotalOf(ledger_call.before, QuoteOf(ledger_call.opp.pair)),
                       GainOf(ledger_call.opp))
           /\ RGt(GainOf(ledger_call.opp), RZero) =>
                  RGt(TotalOf(balances, USDT), TotalOf(ledger_call.before, USDT))
           /\ \A a \in AssetSet \ {BaseOf(ledger_call.opp.pair), QuoteOf(ledger_call.opp.pair)} :
                  \A ex \in ExchangeSet : balances[ex][a] = ledger_call.before[ex][a]
    /\ ledger_call.op # "none" =>
           RGe(TotalOf(balances, USDT), TotalOf(ledger_call.before, USDT))

\* C37 happens: after a rebalance, an apply between two different exchanges
\* returned True on an opportunity whose revenue is above its cost
C37_Witness ==
    /\ ApplySucceeded
    /\ ledger_call.prev = "rebalance"
    /\ ledger_call.opp.buy_exchange # ledger_call.opp.sell_exchange
    /\ RGt(GainOf(ledger_call.opp), RZero)
    /\ balances[Lower(ledger_call.opp.buy_exchange)][BaseOf(ledger_call.opp.pair)] #
           ledger_call.before[Lower(ledger_call.opp.buy_exchange)][BaseOf(ledger_call.opp.pair)]

-----------------------------------------------------------------------------
(* Properties of the ledger in the live run (Spec)                         *)

\* the last check found an opportunity at or above the threshold in force
AboveThresholdFound ==
    /\ last_check.opp # NoFill
    /\ last_check.stage \in {"paper_trade", "skipped"}

\* C38: started with 1000 USDT and nothing else on both exchanges, the live
\* run never has check_and_update_balances return True: every balance stays
\* what it was at the start, and every opportunity at or above the
\* threshold is refused by the ledger and recorded as skipped.
C38_LiveLedgerNeverTrades ==
    /\ balances = InitialBalances(Int2R(1000))
    /\ ledger_call.op = "apply" => ~ledger_call.ret
    /\ last_check.stage # "paper_trade"
    /\ AboveThresholdFound =>
           /\ last_check.call.op = "apply" /\ ~last_check.call.ret
           /\ last_check.after = last_check.before
           /\ Len(last_check.records) = 1 /\ last_check.records[1].word = "SKIPPED"

\* C38 happens: after a rebalance, a check found an opportunity above the
\* threshold that cost less than the buying exchange holds, and took it to
\* the ledger
C38_Witness ==
    /\ AboveThresholdFound
    /\ ledger_call.op = "apply" /\ ledger_call.prev = "rebalance"
    /\ RLt(ledger_call.opp.quote_asset_cost, Int2R(1000))
    /\ RGt(ledger_call.opp.base_asset_amount, RZero)

-----------------------------------------------------------------------------
(* Properties of repeated rebalancing (SpecSettle)                         *)

\* half of what the two exchanges held of an asset before the last call
IdealBefore(a) == RMul(TotalOf(ledger_call.before, a), R(1, 2))

\* the last call left every exchange on the side of the even split it was on
NoOvershoot ==
    \A a \in AssetSet, ex \in ExchangeSet :
        /\ RGe(ledger_call.before[ex][a], IdealBefore(a)) => RGe(balances[ex][a], IdealBefore(a))
        /\ RLe(ledger_call.before[ex][a], IdealBefore(a)) => RLe(balances[ex][a], IdealBefore(a))

\* every asset the last call moved lies nearer the even split than before:
\* at half the distance after one transfer, at a quarter after two
MovesTowardsSplit ==
    \A a \in AssetSet :
        balances[Exchanges[1]][a] # ledger_call.before[Exchanges[1]][a]
            => /\ RLt(OffSplit(balances, a), OffSplit(ledger_call.before, a))
               /\ OffSplit(balances, a) \in {RMul(OffSplit(ledger_call.before, a), R(1, 2)),
                                            RMul(OffSplit(ledger_call.before, a), R(1, 4))}

\* the last call moved nothing
MovedNothing == ledger_call.op = "rebalance" /\ balances = ledger_call.before

\* C39: a call of check_and_perform_rebalance takes no exchange across the
\* even split and brings every asset it moves nearer to it; called again and
\* again with no trade in between, it moves nothing from the third call on.
C39_RebalanceSettles ==
    ledger_call.op = "rebalance" =>
        /\ NoOvershoot
        /\ MovesTowardsSplit
        /\ ops >= 3 => MovedNothing

\* C39 happens: the second of two calls still moved an asset
C39_Witness ==
    /\ ops = 2
    /\ \E a \in AssetSet : balances[Exchanges[1]][a] # ledger_call.before[Exchanges[1]][a]

\* and a later call found an uneven ledger and moved nothing
C39_WitnessSettled ==
    /\ ops = MaxSettleOps
    /\ MovedNothing
    /\ \E a \in AssetSet : balances[Exchanges[1]][a] # balances[Exchanges[2]][a]

-----------------------------------------------------------------------------
(* Properties of every returned opportunity (SpecDetect)                   *)

\* C40: an opportunity find_depth_aware_opportunity returns has a profit
\* fraction above 0, a revenue above its cost, and a base amount above 0 and
\* no larger than what its buy leg filled; a direction whose profit is 0 or
\* negative is not returned.
C40_ReturnedMeansProfitable ==
    Found =>
        /\ RGt(det_out.profit_percentage, RZero)
        /\ RGt(det_out.quote_asset_revenue, det_out.quote_asset_cost)
        /\ RGt(det_out.base_asset_amount, RZero)
        /\ RLe(det_out.base_asset_amount, BuyFill.amount_filled)

\* C40 happens: the second direction is returned at a profit, its whole
\* buy fill sold
C40_Witness ==
    /\ Found
    /\ det_out.buy_exchange = "B"
    /\ det_out.base_asset_amount = BuyFill.amount_filled
    /\ RGt(det_out.quote_asset_revenue, det_out.quote_asset_cost)

=============================================================================
